---- MODULE Spec2Model ----
(***************************************************************************)
(* Change-tracking entity model of wbinteract: an Entity (Item/Property)   *)
(* with its labels, descriptions, aliases and claims parts, the tree of    *)
(* dirty markers kept by Entity._notify, and fetch / save against a        *)
(* Wikibase server whose answers are chosen by the environment.            *)
(***************************************************************************)
EXTENDS Integers, Sequences, FiniteSets, TLC

(* ---------------------------- bounds ----------------------------------- *)
NumLangs == 2
NumTexts == 2
NumAliases == 1
NumProps == 1
NumStmts == 2
NumQuals == 1
NumObjs == 1
NumSummaries == 1
NumSnakProps == 2
NumSnakValues == 2
NumDecimals == 1
MaxAttempts == 3
NumDelays == 2
MaxLookups == 3
NumTokens == 2
MaxItems == 3
BatchSize == 2

Langs == 1..NumLangs
Texts == 1..NumTexts
AliasTexts == 1..NumAliases
Props == 1..NumProps
StmtIds == 1..NumStmts

(* Python's None for Entity._id; Entity._data is a sequence of length 0    *)
(* (None) or 1 (the last server JSON).                                     *)
None == "None"
TEST_ITEM == "Q204828"
NoData == <<>>
(* no Edit object: the caller is in no with-block of an Edit               *)
NoEdit == <<>>

VARIABLES
  id,            \* Entity._id
  data,          \* Entity._data
  labels,        \* Labels.__store        : language -> text
  descriptions,  \* Descriptions.__store  : language -> text
  aliases,       \* Aliases.__store       : language -> set of aliases
  claims,        \* Claims._store         : ordered property groups
  unsaved,       \* Entity._unsaved_changes, the tree of dirty markers
  current_edit,  \* Entity._current_edit
  edit,          \* the Edit whose with-block the caller is in, if any
  tokens,        \* TokenWallet._tokens of the entity's site
  lookups,       \* the token lookups made on the site so far, in order
  http,          \* the call of MediaWiki._post_api_request in progress
  held,          \* the object of the entity the caller keeps a reference to
  last           \* the last call made on the entity and how it returned

vars ==
  <<id, data, labels, descriptions, aliases, claims, unsaved, current_edit, edit, tokens,
    lookups, http, held, last>>

(* ------------------------- dict helpers -------------------------------- *)
EmptyDict == [k \in {} |-> 0]
DictSet(d, k, v) == [x \in (DOMAIN d) \cup {k} |-> IF x = k THEN v ELSE d[x]]
DictDel(d, k) == [x \in (DOMAIN d) \ {k} |-> d[x]]

(* A dict whose values are dicts and whose order of keys reaches the wire  *)
(* (the dirty markers below a part) is an insertion-ordered sequence of    *)
(* [key, sub] entries; a leaf is the empty dict <<>>.                      *)
Keys(tree) == [i \in 1..Len(tree) |-> tree[i].key]
HasKey(tree, k) == \E i \in 1..Len(tree) : tree[i].key = k
KeySet(tree) == {tree[i].key : i \in 1..Len(tree)}

(* the loop of Entity._notify below the first segment:                     *)
(* change_tracker = change_tracker.setdefault(segment, dict())             *)
RECURSIVE SetDefault(_, _)
SetDefault(change_tracker, changed_aspect) ==
  IF changed_aspect = <<>> THEN change_tracker
  ELSE LET segment == Head(changed_aspect)
           rest == Tail(changed_aspect)
       IN IF HasKey(change_tracker, segment)
          THEN [i \in 1..Len(change_tracker) |->
                  IF change_tracker[i].key = segment
                  THEN [key |-> segment, sub |-> SetDefault(change_tracker[i].sub, rest)]
                  ELSE change_tracker[i]]
          ELSE Append(change_tracker, [key |-> segment, sub |-> SetDefault(<<>>, rest)])

(* Entity._notify.  The first segment names a part; _unsaved_changes maps  *)
(* each dirty part to its ordered tree of markers (the order of the parts  *)
(* themselves only orders the keys of the JSON object sent).               *)
Notify(unsaved_changes, changed_aspect) ==
  LET part == Head(changed_aspect)
      tree == IF part \in DOMAIN unsaved_changes THEN unsaved_changes[part] ELSE <<>>
  IN DictSet(unsaved_changes, part, SetDefault(tree, Tail(changed_aspect)))

(* ------------------------- Labels / Descriptions ----------------------- *)
Labels_update_from_json(json) == [key \in DOMAIN json |-> json[key].value]

(* mutant: the changed languages missing from the store are not rendered   *)
Labels_changes_without_remove(store, changed_languages) ==
  LET langs == Keys(changed_languages)
      present == SelectSeq(langs, LAMBDA lang : lang \in DOMAIN store)
  IN [i \in 1..Len(present) |-> [language |-> present[i], value |-> store[present[i]]]]

Labels_changes_to_json(store, changed_languages) ==
  LET langs == Keys(changed_languages)
      present == SelectSeq(langs, LAMBDA lang : lang \in DOMAIN store)
      absent == SelectSeq(langs, LAMBDA lang : lang \notin DOMAIN store)
  IN [i \in 1..Len(present) |-> [language |-> present[i], value |-> store[present[i]]]]
     \o [i \in 1..Len(absent) |-> [language |-> absent[i], remove |-> ""]]

Descriptions_update_from_json(json) == [key \in DOMAIN json |-> json[key].value]

Descriptions_changes_to_json(store, changed_languages) ==
  LET langs == Keys(changed_languages)
      present == SelectSeq(langs, LAMBDA lang : lang \in DOMAIN store)
      absent == SelectSeq(langs, LAMBDA lang : lang \notin DOMAIN store)
  IN [i \in 1..Len(present) |-> [language |-> present[i], value |-> store[present[i]]]]
     \o [i \in 1..Len(absent) |-> [language |-> absent[i], remove |-> ""]]

(* ------------------------------ Aliases -------------------------------- *)
Aliases_update_from_json(json) ==
  [key \in DOMAIN json |-> {json[key][i].value : i \in 1..Len(json[key])}]

(* Aliases.__getitem__ creates an empty AliasSet for an unknown language.  *)
Aliases_getitem(store, key) ==
  IF key \notin DOMAIN store THEN DictSet(store, key, {}) ELSE store

(* The languages on which Aliases._changes_to_json evaluates self[lang]:   *)
(* those with at least one changed alias.                                  *)
Aliases_looked_up(changed) ==
  {changed[i].key : i \in {j \in 1..Len(changed) : Len(changed[j].sub) > 0}}

RECURSIVE Aliases_vivify(_, _)
Aliases_vivify(store, langs) ==
  IF langs = {} THEN store
  ELSE LET lang == CHOOSE l \in langs : TRUE
       IN Aliases_vivify(Aliases_getitem(store, lang), langs \ {lang})

(* The store as Aliases._changes_to_json leaves it.                        *)
Aliases_store_after_changes(store, changed) ==
  Aliases_vivify(store, Aliases_looked_up(changed))

(* mutant: every changed alias is rendered as a value entry                *)
RECURSIVE Aliases_changes_without_remove(_, _)
Aliases_changes_without_remove(store, changed) ==
  IF changed = <<>> THEN <<>>
  ELSE LET lang == Head(changed).key
           alias_keys == Keys(Head(changed).sub)
       IN [i \in 1..Len(alias_keys) |-> [language |-> lang, value |-> alias_keys[i]]]
          \o Aliases_changes_without_remove(store, Tail(changed))

RECURSIVE Aliases_changes_to_json(_, _)
Aliases_changes_to_json(store, changed) ==
  IF changed = <<>> THEN <<>>
  ELSE LET lang == Head(changed).key
           alias_keys == Keys(Head(changed).sub)
           set == Aliases_getitem(store, lang)[lang]
       IN [i \in 1..Len(alias_keys) |->
             IF alias_keys[i] \in set
             THEN [language |-> lang, value |-> alias_keys[i]]
             ELSE [language |-> lang, value |-> alias_keys[i], remove |-> ""]]
          \o Aliases_changes_to_json(store, Tail(changed))

(* ------------------------------ Claims --------------------------------- *)
(* A snak object is [kind, p, value]; a Statement object is                 *)
(* [id, obj, listener, mainsnak, rank, qualifiers, references], with       *)
(* id = NoId for Python's None, listener = <<>> when nothing is attached   *)
(* and <<id>> when attached to Claims._notify with that id, and obj the    *)
(* identity of an object built by the caller (Statement has no __eq__).    *)
NoId == 0
NEW_KEY == -1

PropertyValueSnak_from_json(json) ==
  [kind |-> "value", p |-> json.property, value |-> json.datavalue.value]

PropertyValueSnak_to_json(snak) ==
  [snaktype |-> "value", property |-> snak.p,
   datavalue |-> [type |-> "string", value |-> snak.value]]

(* elem.p of a snak or of a statement (Statement.p is its mainsnak's p)    *)
P(elem) == IF "mainsnak" \in DOMAIN elem THEN elem.mainsnak.p ELSE elem.p

(* SnakSet._store is a defaultdict(list): an insertion-ordered sequence of *)
(* [p, group] entries; reading _store[p] creates an empty group.           *)
HasGroup(store, p) == \E i \in 1..Len(store) : store[i].p = p
GroupIndex(store, p) == CHOOSE i \in 1..Len(store) : store[i].p = p
SnakSet_store_getitem(store, p) ==
  IF HasGroup(store, p) THEN store ELSE Append(store, [p |-> p, group |-> <<>>])
Group(store, p) == IF HasGroup(store, p) THEN store[GroupIndex(store, p)].group ELSE <<>>
(* Python's == on the elements of a SnakSet: snaks compare by value        *)
(* (PropertyValueSnak.__eq__); Statement defines no __eq__, so statements  *)
(* compare by object identity.  A loaded statement object is identified by *)
(* its content (ids are unique in a server JSON), a statement object built *)
(* by the caller by its obj handle.                                        *)
Eq(a, b) ==
  IF "obj" \in DOMAIN a
  THEN IF a.obj # 0 \/ b.obj # 0 THEN a.obj = b.obj ELSE a = b
  ELSE a = b
InSeq(seq, elem) == \E i \in 1..Len(seq) : Eq(seq[i], elem)

SnakSet_contains(store, elem) == InSeq(Group(store, P(elem)), elem)

SnakSet_append(store, elem) ==
  LET s == SnakSet_store_getitem(store, P(elem))
  IN [s EXCEPT ![GroupIndex(s, P(elem))].group = Append(@, elem)]

(* list.remove: drop the first element equal to elem                       *)
ListRemove(seq, elem) ==
  LET k == CHOOSE i \in 1..Len(seq) : Eq(seq[i], elem) /\ \A j \in 1..(i - 1) : ~Eq(seq[j], elem)
  IN [i \in 1..(Len(seq) - 1) |-> IF i < k THEN seq[i] ELSE seq[i + 1]]

SnakSet_store_remove(store, elem) ==
  [store EXCEPT ![GroupIndex(store, P(elem))].group = ListRemove(@, elem)]

RECURSIVE SnakSet_iter(_)
SnakSet_iter(store) ==
  IF store = <<>> THEN <<>> ELSE Head(store).group \o SnakSet_iter(Tail(store))

RECURSIVE SnakSet_from_elems(_, _)
SnakSet_from_elems(store, elems) ==
  IF elems = <<>> THEN store
  ELSE SnakSet_from_elems(SnakSet_append(store, Head(elems)), Tail(elems))

(* itertools.chain.from_iterable(json_snak_dict.values())                  *)
RECURSIVE ChainValues(_)
ChainValues(json_dict) ==
  IF json_dict = <<>> THEN <<>> ELSE Head(json_dict).list \o ChainValues(Tail(json_dict))

SnakSet_to_json(store) ==
  LET snaks == SnakSet_iter(store)
  IN [i \in 1..Len(snaks) |-> PropertyValueSnak_to_json(snaks[i])]

Qualifiers_update_from_json(json_dict) ==
  LET snaks == ChainValues(json_dict)
  IN SnakSet_from_elems(<<>>, [i \in 1..Len(snaks) |-> PropertyValueSnak_from_json(snaks[i])])

(* Rank: the enum members are told by their JSON values                    *)
Rank_NORMAL == "normal"
Ranks == {"preferred", Rank_NORMAL, "deprecated"}

(* SnakSet.from_iterable: every element is appended to its group           *)
SnakSet_from_iterable(iterable) == SnakSet_from_elems(<<>>, iterable)

(* Statement.__init__; `qualifiers` is <<>> for None and <<iterable>> for  *)
(* an iterable of snaks, `obj` the identity of the new object.             *)
Statement_init(obj, mainsnak, rank, qualifiers, statement_id) ==
  [id |-> statement_id, obj |-> obj, listener |-> <<>>,
   mainsnak |-> mainsnak,
   rank |-> rank,
   qualifiers |-> IF qualifiers = <<>> THEN <<>> ELSE SnakSet_from_iterable(qualifiers[1]),
   references |-> <<>>]

(* Wikibase.snak / Wikibase.claim; rank is None when the caller gives none *)
Wikibase_snak(p, value) == [kind |-> "value", p |-> p, value |-> value]
Wikibase_claim(obj, p, value, rank, qualifiers) ==
  Statement_init(obj, Wikibase_snak(p, value),
                 IF rank = None THEN Rank_NORMAL ELSE rank, qualifiers, NoId)

Statement_from_json(json) ==
  [id |-> json.id, obj |-> 0, listener |-> <<>>,
   mainsnak |-> PropertyValueSnak_from_json(json.mainsnak),
   rank |-> json.rank,
   qualifiers |-> Qualifiers_update_from_json(json.qualifiers),
   references |-> <<>>]

Statement_to_json(statement) ==
  LET json == [type |-> "statement",
               mainsnak |-> PropertyValueSnak_to_json(statement.mainsnak),
               rank |-> statement.rank,
               qualifiers |-> SnakSet_to_json(statement.qualifiers),
               references |-> statement.references]
  IN IF statement.id # NoId
     THEN [type |-> json.type, mainsnak |-> json.mainsnak, rank |-> json.rank,
           qualifiers |-> json.qualifiers, references |-> json.references,
           id |-> statement.id]
     ELSE json

(* mutant: the loaded statements are not attached to Claims._notify        *)
Claims_update_without_attach(json_dict) ==
  LET jsons == ChainValues(json_dict)
  IN SnakSet_from_elems(<<>>, [i \in 1..Len(jsons) |-> Statement_from_json(jsons[i])])

(* Claims._update_from_json: every statement is built from its JSON and    *)
(* attached to Claims._notify with its id.                                 *)
Claims_update_from_json(json_dict) ==
  LET jsons == ChainValues(json_dict)
  IN SnakSet_from_elems(<<>>,
       [i \in 1..Len(jsons) |->
          [Statement_from_json(jsons[i]) EXCEPT !.listener = <<jsons[i].id>>]])

(* `in` and list.remove on the list of changed ids (plain strings)         *)
IdIn(ids, x) == \E i \in 1..Len(ids) : ids[i] = x
IdRemove(ids, x) ==
  LET k == CHOOSE i \in 1..Len(ids) : ids[i] = x /\ \A j \in 1..(i - 1) : ids[j] # x
  IN [i \in 1..(Len(ids) - 1) |-> IF i < k THEN ids[i] ELSE ids[i + 1]]

(* mutant: a changed id stays in changed_claims after its statement was    *)
(* rendered                                                                *)
RECURSIVE Claims_render_keeping_ids(_, _)
Claims_render_keeping_ids(live, changed_claims) ==
  IF live = <<>>
  THEN [i \in 1..Len(changed_claims) |-> [id |-> changed_claims[i], remove |-> ""]]
  ELSE LET claim == Head(live)
       IN IF claim.id = NoId \/ IdIn(changed_claims, claim.id)
          THEN <<Statement_to_json(claim)>>
               \o Claims_render_keeping_ids(Tail(live), changed_claims)
          ELSE Claims_render_keeping_ids(Tail(live), changed_claims)

RECURSIVE Claims_render(_, _)
Claims_render(live, changed_claims) ==
  IF live = <<>>
  THEN [i \in 1..Len(changed_claims) |-> [id |-> changed_claims[i], remove |-> ""]]
  ELSE LET claim == Head(live)
       IN IF claim.id = NoId
          THEN <<Statement_to_json(claim)>> \o Claims_render(Tail(live), changed_claims)
          ELSE IF IdIn(changed_claims, claim.id)
          THEN <<Statement_to_json(claim)>>
               \o Claims_render(Tail(live), IdRemove(changed_claims, claim.id))
          ELSE Claims_render(Tail(live), changed_claims)

Claims_changes_to_json(store, changed) ==
  Claims_render(SnakSet_iter(store), SelectSeq(Keys(changed), LAMBDA key : key # NEW_KEY))

(* ------------------------------ Entity --------------------------------- *)
(* The changes dict built by Entity.save: one fragment per dirty part.     *)
Changes ==
  [key \in DOMAIN unsaved |->
     CASE key = "labels" -> Labels_changes_to_json(labels, unsaved[key])
       [] key = "descriptions" -> Descriptions_changes_to_json(descriptions, unsaved[key])
       [] key = "aliases" -> Aliases_changes_to_json(aliases, unsaved[key])
       [] key = "claims" -> Claims_changes_to_json(claims, unsaved[key])]

(* The caller may keep a reference to an object of the entity: a part     *)
(* container, the AliasSet of a language (key), or a statement (key is its *)
(* position in Claims._store).  While the object is in the entity its      *)
(* contents are the entity's; `own` is what it holds once it is not.       *)
NoHandle == [kind |-> "none", key |-> 0, live |-> FALSE, own |-> 0]

(* mutant: the stores are updated in place, the objects stay               *)
Replaced_in_place(handle) == handle

(* Aliases._update_from_json and SnakSet._update_from_json assign a new    *)
(* store filled with new AliasSet and Statement objects: an object handed  *)
(* out before keeps what it held and its listener, and is in no store.     *)
(* The part containers are assigned once, in Item.__init__.                *)
Replaced(handle) ==
  CASE handle.live /\ handle.kind = "aliasset" ->
         [handle EXCEPT !.live = FALSE, !.own = aliases[handle.key]]
    [] handle.live /\ handle.kind = "statement" ->
         [handle EXCEPT !.live = FALSE,
                        !.own = claims[handle.key[1]].group[handle.key[2]]]
    [] OTHER -> handle

(* mutant: labels of the server are merged into the local ones             *)
Entity_update_merging_labels(json) ==
  /\ data' = <<json>>
  /\ held' = Replaced(held)
  /\ labels' = [key \in DOMAIN labels \cup DOMAIN json.labels |->
                  IF key \in DOMAIN json.labels THEN json.labels[key].value
                  ELSE labels[key]]
  /\ descriptions' = Descriptions_update_from_json(json.descriptions)
  /\ aliases' = Aliases_update_from_json(json.aliases)
  /\ claims' = Claims_update_from_json(json.claims)

(* Entity._update_from_json: keep the JSON, rebuild every part from it.    *)
Entity_update_from_json(json) ==
  /\ data' = <<json>>
  /\ held' = Replaced(held)
  /\ labels' = Labels_update_from_json(json.labels)
  /\ descriptions' = Descriptions_update_from_json(json.descriptions)
  /\ aliases' = Aliases_update_from_json(json.aliases)
  /\ claims' = Claims_update_from_json(json.claims)

(* `last` records the call just made on the entity: its name, the key it   *)
(* was given (0 when it has none), how it returned ("ok" or the exception  *)
(* raised), the API requests it issued (their action names, in order) and, *)
(* for an edit request, the summary and the patch sent as its data.        *)
NoSummary == 0
Returned(op, arg) ==
  [op |-> op, status |-> "ok", arg |-> arg, sent |-> EmptyDict,
   requests |-> <<>>, summary |-> NoSummary]
Raised(op, error, arg) ==
  [op |-> op, status |-> error, arg |-> arg, sent |-> EmptyDict,
   requests |-> <<>>, summary |-> NoSummary]

(* mutant: the answer is stored before it is checked for "missing"         *)
Fetch_storing_before_check(Entities) ==
  \/ /\ id # None
     /\ \E json \in Entities :
          /\ json.id = id
          /\ Entity_update_from_json(json)
     /\ last' = [Returned("fetch", 0) EXCEPT !.requests = <<"wbgetentities">>]
     /\ UNCHANGED <<id, tokens, lookups, http, current_edit, edit, unsaved>>
  \/ /\ id # None
     /\ data' = <<[id |-> id, missing |-> ""]>>
     /\ last' = [Raised("fetch", "EntityMissingError", 0) EXCEPT !.requests = <<"wbgetentities">>]
     /\ UNCHANGED <<held, id, tokens, lookups, http, current_edit, edit, labels, descriptions, aliases, claims, unsaved>>
  \/ /\ last' = [Raised("fetch", "APIError", 0) EXCEPT !.requests = <<"wbgetentities">>]
     /\ UNCHANGED <<held, id, tokens, lookups, http, current_edit, edit, data, labels, descriptions, aliases, claims, unsaved>>

(* Entity.fetch.  The server answers with an entity JSON of `Entities`,    *)
(* reports the entity missing, or the API call raises APIError.            *)
Fetch(Entities) ==
  \/ /\ id # None
     /\ \E json \in Entities :
          /\ json.id = id
          /\ Entity_update_from_json(json)
     /\ last' = [Returned("fetch", 0) EXCEPT !.requests = <<"wbgetentities">>]
     /\ UNCHANGED <<id, tokens, lookups, http, current_edit, edit, unsaved>>
  \/ /\ id # None
     /\ last' = [Raised("fetch", "EntityMissingError", 0) EXCEPT !.requests = <<"wbgetentities">>]
     /\ UNCHANGED <<held, id, tokens, lookups, http, current_edit, edit, data, labels, descriptions, aliases, claims, unsaved>>
  \/ /\ last' = [Raised("fetch", "APIError", 0) EXCEPT !.requests = <<"wbgetentities">>]
     /\ UNCHANGED <<held, id, tokens, lookups, http, current_edit, edit, data, labels, descriptions, aliases, claims, unsaved>>

(* Entity.save.  The patch is rendered first (which evaluates self[lang]   *)
(* on the aliases part), then the edit request is answered or fails.       *)
Save(Entities) ==
  \/ /\ \E json \in Entities :
          /\ id # None => json.id = id
          /\ Entity_update_from_json(json)
     /\ last' = [Returned("save", 0) EXCEPT !.sent = Changes, !.requests = <<"wbeditentity">>]
     /\ UNCHANGED <<id, tokens, lookups, http, current_edit, edit, unsaved>>
  \/ /\ aliases' = IF "aliases" \in DOMAIN unsaved
                   THEN Aliases_store_after_changes(aliases, unsaved["aliases"])
                   ELSE aliases
     /\ last' = [Raised("save", "APIError", 0) EXCEPT !.sent = Changes,
                                                   !.requests = <<"wbeditentity">>]
     /\ UNCHANGED <<held, id, tokens, lookups, http, current_edit, edit, data, labels, descriptions, claims, unsaved>>

(* mutant: a label is stored without a notification                       *)
Labels_setitem_unnotified(key, value) ==
  /\ labels' = DictSet(labels, key, value)
  /\ last' = Returned("labels.set", key)
  /\ UNCHANGED <<held, id, tokens, lookups, http, current_edit, edit, data, descriptions, aliases, claims,
                 unsaved>>

(* Labels.__setitem__ / __delitem__                                        *)
Labels_setitem(key, value) ==
  /\ labels' = DictSet(labels, key, value)
  /\ unsaved' = Notify(unsaved, <<"labels", key>>)
  /\ last' = Returned("labels.set", key)
  /\ UNCHANGED <<held, id, tokens, lookups, http, current_edit, edit, data, descriptions, aliases, claims>>

Labels_delitem(key) ==
  IF key \in DOMAIN labels
  THEN /\ labels' = DictDel(labels, key)
       /\ unsaved' = Notify(unsaved, <<"labels", key>>)
       /\ last' = Returned("labels.del", key)
       /\ UNCHANGED <<held, id, tokens, lookups, http, current_edit, edit, data, descriptions, aliases, claims>>
  ELSE /\ last' = Raised("labels.del", "KeyError", key)
       /\ UNCHANGED <<held, id, tokens, lookups, http, current_edit, edit, data, labels, descriptions, aliases, claims, unsaved>>

(* Descriptions.__setitem__ / __delitem__                                  *)
Descriptions_setitem(key, value) ==
  /\ descriptions' = DictSet(descriptions, key, value)
  /\ unsaved' = Notify(unsaved, <<"descriptions", key>>)
  /\ last' = Returned("descriptions.set", key)
  /\ UNCHANGED <<held, id, tokens, lookups, http, current_edit, edit, data, labels, aliases, claims>>

Descriptions_delitem(key) ==
  IF key \in DOMAIN descriptions
  THEN /\ descriptions' = DictDel(descriptions, key)
       /\ unsaved' = Notify(unsaved, <<"descriptions", key>>)
       /\ last' = Returned("descriptions.del", key)
       /\ UNCHANGED <<held, id, tokens, lookups, http, current_edit, edit, data, labels, aliases, claims>>
  ELSE /\ last' = Raised("descriptions.del", "KeyError", key)
       /\ UNCHANGED <<held, id, tokens, lookups, http, current_edit, edit, data, labels, descriptions, aliases, claims, unsaved>>

(* mutant: the lookup of a language marks it                               *)
Aliases_lookup_marking(key) ==
  /\ aliases' = Aliases_getitem(aliases, key)
  /\ unsaved' = Notify(unsaved, <<"aliases", key>>)
  /\ last' = Returned("aliases.get", key)
  /\ UNCHANGED <<held, id, tokens, lookups, http, current_edit, edit, data, labels, descriptions, claims>>

(* Aliases.__getitem__ alone, as in len(item.aliases[key])                 *)
Aliases_lookup(key) ==
  /\ aliases' = Aliases_getitem(aliases, key)
  /\ last' = Returned("aliases.get", key)
  /\ UNCHANGED <<held, id, tokens, lookups, http, current_edit, edit, data, labels, descriptions, claims, unsaved>>

(* item.aliases[key].add(value) / .discard(value); `last` keeps the pair   *)
(* (key, value) the call was given                                         *)
AliasSet_add(key, value) ==
  /\ aliases' = LET store == Aliases_getitem(aliases, key)
                IN [store EXCEPT ![key] = @ \cup {value}]
  /\ unsaved' = Notify(unsaved, <<"aliases", key, value>>)
  /\ last' = Returned("aliases.add", <<key, value>>)
  /\ UNCHANGED <<held, id, tokens, lookups, http, current_edit, edit, data, labels, descriptions, claims>>

AliasSet_discard(key, value) ==
  /\ aliases' = LET store == Aliases_getitem(aliases, key)
                IN [store EXCEPT ![key] = @ \ {value}]
  /\ unsaved' = Notify(unsaved, <<"aliases", key, value>>)
  /\ last' = Returned("aliases.discard", <<key, value>>)
  /\ UNCHANGED <<held, id, tokens, lookups, http, current_edit, edit, data, labels, descriptions, claims>>

(* The orders in which iterating a Python set can yield its elements       *)
Orders(S) == {order \in [1..Cardinality(S) -> S] :
                \A i, j \in 1..Cardinality(S) : order[i] = order[j] => i = j}

RECURSIVE NotifyEach(_, _, _)
NotifyEach(unsaved_changes, key, values) ==
  IF values = <<>> THEN unsaved_changes
  ELSE NotifyEach(Notify(unsaved_changes, <<"aliases", key, Head(values)>>), key, Tail(values))

(* item.aliases[key].clear(): MutableSet.clear pops until the set is       *)
(* empty, and pop discards the first element the iteration yields          *)
AliasSet_clear(key) ==
  LET store == Aliases_getitem(aliases, key)
  IN /\ aliases' = [store EXCEPT ![key] = {}]
     /\ \E order \in Orders(store[key]) : unsaved' = NotifyEach(unsaved, key, order)
     /\ last' = Returned("aliases.clear", key)
     /\ UNCHANGED <<held, id, tokens, lookups, http, current_edit, edit, data, labels, descriptions, claims>>

(* SnakSet.add on the claims part                                          *)
Claims_add(elem) ==
  /\ IF SnakSet_contains(claims, elem)
     THEN /\ claims' = SnakSet_store_getitem(claims, P(elem))
          /\ UNCHANGED unsaved
     ELSE /\ claims' = SnakSet_append(claims, elem)
          /\ unsaved' = Notify(unsaved, <<"claims">>)
  /\ last' = Returned("claims.add", 0)
  /\ UNCHANGED <<held, id, tokens, lookups, http, current_edit, edit, data, labels, descriptions, aliases>>

(* mutant: SnakSet.remove, which notifies without the statement's id       *)
Claims_remove_without_id(elem) ==
  /\ IF SnakSet_contains(claims, elem)
     THEN /\ claims' = SnakSet_store_remove(claims, elem)
          /\ unsaved' = Notify(unsaved, <<"claims">>)
          /\ last' = Returned("claims.remove", 0)
     ELSE /\ claims' = SnakSet_store_getitem(claims, P(elem))
          /\ last' = Raised("claims.remove", "ValueError", 0)
          /\ UNCHANGED unsaved
  /\ UNCHANGED <<held, id, tokens, lookups, http, current_edit, edit, data, labels, descriptions, aliases>>

(* Claims.remove                                                           *)
Claims_remove(elem) ==
  /\ IF SnakSet_contains(claims, elem)
     THEN /\ claims' = SnakSet_store_remove(claims, elem)
          /\ unsaved' = IF elem.id # NoId
                        THEN Notify(unsaved, <<"claims", elem.id>>)
                        ELSE unsaved
          /\ last' = Returned("claims.remove", 0)
     ELSE /\ claims' = SnakSet_store_getitem(claims, P(elem))
          /\ last' = Raised("claims.remove", "ValueError", 0)
          /\ UNCHANGED unsaved
  /\ UNCHANGED <<held, id, tokens, lookups, http, current_edit, edit, data, labels, descriptions, aliases>>

(* SnakSet.discard on the claims part: self.remove(elem), which is         *)
(* Claims.remove, with its ValueError passed over                          *)
Claims_discard(elem) ==
  /\ IF SnakSet_contains(claims, elem)
     THEN /\ claims' = SnakSet_store_remove(claims, elem)
          /\ unsaved' = IF elem.id # NoId
                        THEN Notify(unsaved, <<"claims", elem.id>>)
                        ELSE unsaved
     ELSE /\ claims' = SnakSet_store_getitem(claims, P(elem))
          /\ UNCHANGED unsaved
  /\ last' = Returned("claims.discard", elem)
  /\ UNCHANGED <<held, id, tokens, lookups, http, current_edit, edit, data, labels, descriptions, aliases>>

(* Statement._notify: forwards to the listener if one is attached; the     *)
(* listener of a loaded statement is Claims._notify with the statement id, *)
(* which forwards to Entity._notify("claims", id).                         *)
Statement_notify(statement) ==
  IF statement.listener = <<>> THEN unsaved
  ELSE Notify(unsaved, <<"claims">> \o statement.listener)

(* mutant: SnakSet.add without its membership test                         *)
Qualifiers_add_always(g, k, snak) ==
  LET statement == claims[g].group[k]
  IN /\ claims' = [claims EXCEPT ![g].group[k].qualifiers = SnakSet_append(@, snak)]
     /\ unsaved' = Statement_notify(statement)
     /\ last' = Returned("qualifiers.add", snak)
     /\ UNCHANGED <<held, id, tokens, lookups, http, current_edit, edit, data, labels, descriptions, aliases>>

(* statement.qualifiers.add(snak) on the k-th statement of group g         *)
Qualifiers_add(g, k, snak) ==
  LET statement == claims[g].group[k]
  IN /\ IF SnakSet_contains(statement.qualifiers, snak)
        THEN /\ claims' = [claims EXCEPT ![g].group[k].qualifiers =
                              SnakSet_store_getitem(@, snak.p)]
             /\ UNCHANGED unsaved
        ELSE /\ claims' = [claims EXCEPT ![g].group[k].qualifiers =
                              SnakSet_append(@, snak)]
             /\ unsaved' = Statement_notify(statement)
     /\ last' = Returned("qualifiers.add", snak)
     /\ UNCHANGED <<held, id, tokens, lookups, http, current_edit, edit, data, labels, descriptions, aliases>>

(* statement.qualifiers.remove(snak)                                       *)
Qualifiers_remove(g, k, snak) ==
  LET statement == claims[g].group[k]
  IN /\ IF SnakSet_contains(statement.qualifiers, snak)
        THEN /\ claims' = [claims EXCEPT ![g].group[k].qualifiers =
                              SnakSet_store_remove(@, snak)]
             /\ unsaved' = Statement_notify(statement)
             /\ last' = Returned("qualifiers.remove", 0)
        ELSE /\ claims' = [claims EXCEPT ![g].group[k].qualifiers =
                              SnakSet_store_getitem(@, snak.p)]
             /\ last' = Raised("qualifiers.remove", "ValueError", 0)
             /\ UNCHANGED unsaved
     /\ UNCHANGED <<held, id, tokens, lookups, http, current_edit, edit, data, labels, descriptions, aliases>>

(* mutant: discard notifies whether or not it removed the snak            *)
Qualifiers_discard_notifying(g, k, snak) ==
  LET statement == claims[g].group[k]
  IN /\ IF SnakSet_contains(statement.qualifiers, snak)
        THEN claims' = [claims EXCEPT ![g].group[k].qualifiers = SnakSet_store_remove(@, snak)]
        ELSE claims' = [claims EXCEPT ![g].group[k].qualifiers =
                          SnakSet_store_getitem(@, snak.p)]
     /\ unsaved' = Statement_notify(statement)
     /\ last' = Returned("qualifiers.discard", snak)
     /\ UNCHANGED <<held, id, tokens, lookups, http, current_edit, edit, data, labels, descriptions, aliases>>

(* statement.qualifiers.discard(snak): remove with its ValueError passed   *)
(* over                                                                    *)
Qualifiers_discard(g, k, snak) ==
  LET statement == claims[g].group[k]
  IN /\ IF SnakSet_contains(statement.qualifiers, snak)
        THEN /\ claims' = [claims EXCEPT ![g].group[k].qualifiers =
                              SnakSet_store_remove(@, snak)]
             /\ unsaved' = Statement_notify(statement)
        ELSE /\ claims' = [claims EXCEPT ![g].group[k].qualifiers =
                              SnakSet_store_getitem(@, snak.p)]
             /\ UNCHANGED unsaved
     /\ last' = Returned("qualifiers.discard", snak)
     /\ UNCHANGED <<held, id, tokens, lookups, http, current_edit, edit, data, labels, descriptions, aliases>>

(* mutant: the rank setter without its notification                        *)
Statement_set_rank_silently(g, k, value) ==
  LET statement == claims[g].group[k]
  IN /\ claims' = [claims EXCEPT ![g].group[k].rank = value]
     /\ last' = Returned("rank.set", statement.id)
     /\ UNCHANGED <<held, id, tokens, lookups, http, current_edit, edit, data, labels, descriptions, aliases, unsaved>>

(* statement.rank = value on the k-th statement of group g                 *)
Statement_set_rank(g, k, value) ==
  LET statement == claims[g].group[k]
  IN /\ claims' = [claims EXCEPT ![g].group[k].rank = value]
     /\ unsaved' = Statement_notify(statement)
     /\ last' = Returned("rank.set", statement.id)
     /\ UNCHANGED <<held, id, tokens, lookups, http, current_edit, edit, data, labels, descriptions, aliases>>

(* A call that returns a value to the caller                               *)
Answered(op, arg, result) ==
  [op |-> op, status |-> "ok", arg |-> arg, sent |-> EmptyDict,
   requests |-> <<>>, summary |-> NoSummary, result |-> result]

(* snak in statement.qualifiers: the test reads _store[snak.p]             *)
Qualifiers_contains(g, k, snak) ==
  LET statement == claims[g].group[k]
  IN /\ claims' = [claims EXCEPT ![g].group[k].qualifiers = SnakSet_store_getitem(@, snak.p)]
     /\ last' = Answered("qualifiers.contains", snak,
                         SnakSet_contains(statement.qualifiers, snak))
     /\ UNCHANGED <<held, id, tokens, lookups, http, current_edit, edit, data, labels, descriptions, aliases, unsaved>>

(* len(statement.qualifiers)                                               *)
Qualifiers_len(g, k) ==
  LET statement == claims[g].group[k]
  IN /\ last' = Answered("qualifiers.len", 0, Len(SnakSet_iter(statement.qualifiers)))
     /\ UNCHANGED <<held, id, tokens, lookups, http, current_edit, edit, data, labels, descriptions, aliases, claims,
                    unsaved>>

(* len(statement.qualifiers.p(p)): SnaksView.__len__ reads _store[p]       *)
Qualifiers_p_len(g, k, p) ==
  LET statement == claims[g].group[k]
  IN /\ claims' = [claims EXCEPT ![g].group[k].qualifiers = SnakSet_store_getitem(@, p)]
     /\ last' = Answered("qualifiers.p.len", p, Len(Group(statement.qualifiers, p)))
     /\ UNCHANGED <<held, id, tokens, lookups, http, current_edit, edit, data, labels, descriptions, aliases, unsaved>>

(* len(entity.claims.p(p)) and list(entity.claims.p(p))                    *)
Claims_p_len(p) ==
  /\ claims' = SnakSet_store_getitem(claims, p)
  /\ last' = Answered("claims.p.len", p, Len(Group(claims, p)))
  /\ UNCHANGED <<held, id, tokens, lookups, http, current_edit, edit, data, labels, descriptions, aliases, unsaved>>

Claims_p_iter(p) ==
  /\ claims' = SnakSet_store_getitem(claims, p)
  /\ last' = Answered("claims.p.iter", p, Group(claims, p))
  /\ UNCHANGED <<held, id, tokens, lookups, http, current_edit, edit, data, labels, descriptions, aliases, unsaved>>

(* elem in entity.claims.p(p): SnaksView.__contains__ subscripts the       *)
(* SnakSet, which has no __getitem__                                       *)
Claims_p_contains(p, elem) ==
  /\ last' = Raised("claims.p.contains", "TypeError", p)
  /\ UNCHANGED <<held, id, tokens, lookups, http, current_edit, edit, data, labels, descriptions, aliases, claims, unsaved>>

(* ------------------- objects the caller keeps -------------------------- *)
Handle(kind, key) == [kind |-> kind, key |-> key, live |-> TRUE, own |-> 0]

(* labels = item.labels                                                    *)
Item_labels ==
  /\ held' = Handle("labels", 0)
  /\ last' = Returned("labels.get", 0)
  /\ UNCHANGED <<id, tokens, lookups, http, current_edit, edit, data, labels, descriptions,
                 aliases, claims, unsaved>>

(* alias_set = item.aliases[key]                                           *)
Aliases_getitem_keep(key) ==
  /\ aliases' = Aliases_getitem(aliases, key)
  /\ held' = Handle("aliasset", key)
  /\ last' = Returned("aliases.get", key)
  /\ UNCHANGED <<id, tokens, lookups, http, current_edit, edit, data, labels, descriptions,
                 claims, unsaved>>

(* statement = list(item.claims)[n], the k-th statement of group g         *)
Claims_iter_keep(g, k) ==
  /\ held' = Handle("statement", <<g, k>>)
  /\ last' = Returned("claims.iter", 0)
  /\ UNCHANGED <<id, tokens, lookups, http, current_edit, edit, data, labels, descriptions,
                 aliases, claims, unsaved>>

(* labels[key] = value on the container kept                               *)
Kept_labels_setitem(key, value) ==
  /\ held.kind = "labels"
  /\ Labels_setitem(key, value)

(* alias_set.add(value) / alias_set.discard(value) on the AliasSet kept:   *)
(* its own store changes, its listener is Aliases._notify with its key     *)
Kept_aliases_add(value) ==
  /\ held.kind = "aliasset"
  /\ IF held.live
     THEN /\ aliases' = [aliases EXCEPT ![held.key] = @ \cup {value}]
          /\ UNCHANGED held
     ELSE /\ held' = [held EXCEPT !.own = @ \cup {value}]
          /\ UNCHANGED aliases
  /\ unsaved' = Notify(unsaved, <<"aliases", held.key, value>>)
  /\ last' = Returned("aliasset.add", <<held.key, value>>)
  /\ UNCHANGED <<id, tokens, lookups, http, current_edit, edit, data, labels, descriptions,
                 claims>>

Kept_aliases_discard(value) ==
  /\ held.kind = "aliasset"
  /\ IF held.live
     THEN /\ aliases' = [aliases EXCEPT ![held.key] = @ \ {value}]
          /\ UNCHANGED held
     ELSE /\ held' = [held EXCEPT !.own = @ \ {value}]
          /\ UNCHANGED aliases
  /\ unsaved' = Notify(unsaved, <<"aliases", held.key, value>>)
  /\ last' = Returned("aliasset.discard", <<held.key, value>>)
  /\ UNCHANGED <<id, tokens, lookups, http, current_edit, edit, data, labels, descriptions,
                 claims>>

(* the Statement object kept                                               *)
Kept_statement ==
  IF held.live THEN claims[held.key[1]].group[held.key[2]] ELSE held.own

(* statement.rank = value on the statement kept                            *)
Kept_set_rank(value) ==
  /\ held.kind = "statement"
  /\ IF held.live
     THEN /\ claims' = [claims EXCEPT ![held.key[1]].group[held.key[2]].rank = value]
          /\ UNCHANGED held
     ELSE /\ held' = [held EXCEPT !.own.rank = value]
          /\ UNCHANGED claims
  /\ unsaved' = Statement_notify(Kept_statement)
  /\ last' = Returned("statement.rank.set", Kept_statement.id)
  /\ UNCHANGED <<id, tokens, lookups, http, current_edit, edit, data, labels, descriptions,
                 aliases>>

(* statement.qualifiers.add(snak) on the statement kept                    *)
Kept_qualifiers_add(snak) ==
  /\ held.kind = "statement"
  /\ LET qualifiers == IF SnakSet_contains(Kept_statement.qualifiers, snak)
                       THEN SnakSet_store_getitem(Kept_statement.qualifiers, snak.p)
                       ELSE SnakSet_append(Kept_statement.qualifiers, snak)
     IN IF held.live
        THEN /\ claims' = [claims EXCEPT ![held.key[1]].group[held.key[2]].qualifiers =
                             qualifiers]
             /\ UNCHANGED held
        ELSE /\ held' = [held EXCEPT !.own.qualifiers = qualifiers]
             /\ UNCHANGED claims
  /\ unsaved' = IF SnakSet_contains(Kept_statement.qualifiers, snak)
                THEN unsaved
                ELSE Statement_notify(Kept_statement)
  /\ last' = Returned("statement.qualifiers.add", Kept_statement.id)
  /\ UNCHANGED <<id, tokens, lookups, http, current_edit, edit, data, labels, descriptions,
                 aliases>>

(* ----------------------------- Item.claims ----------------------------- *)
(* The claims property of an Item calls self.fetch() when _data is None.   *)
(* The request carries ids = self.id; without an id the server refuses it  *)
(* (APIError) or answers without an entry for it (KeyError).               *)
Item_claims_fetch(Entities, op) ==
  \/ /\ id # None
     /\ \E json \in Entities :
          /\ json.id = id
          /\ Entity_update_from_json(json)
     /\ last' = [Returned(op, 0) EXCEPT !.requests = <<"wbgetentities">>]
     /\ UNCHANGED <<id, tokens, lookups, http, current_edit, edit, unsaved>>
  \/ /\ id # None
     /\ last' = [Raised(op, "EntityMissingError", 0) EXCEPT !.requests = <<"wbgetentities">>]
     /\ UNCHANGED <<held, id, tokens, lookups, http, current_edit, edit, data, labels, descriptions, aliases, claims,
                    unsaved>>
  \/ /\ last' = [Raised(op, "APIError", 0) EXCEPT !.requests = <<"wbgetentities">>]
     /\ UNCHANGED <<held, id, tokens, lookups, http, current_edit, edit, data, labels, descriptions, aliases, claims,
                    unsaved>>
  \/ /\ id = None
     /\ last' = [Raised(op, "KeyError", 0) EXCEPT !.requests = <<"wbgetentities">>]
     /\ UNCHANGED <<held, id, tokens, lookups, http, current_edit, edit, data, labels, descriptions, aliases, claims,
                    unsaved>>

(* len(item.claims)                                                        *)
Item_claims_len(Entities) ==
  IF data # NoData
  THEN /\ last' = Returned("claims.get", 0)
       /\ UNCHANGED <<held, id, tokens, lookups, http, current_edit, edit, data, labels, descriptions, aliases, claims,
                      unsaved>>
  ELSE Item_claims_fetch(Entities, "claims.get")

(* item.claims.add(elem)                                                   *)
Item_claims_add(Entities, elem) ==
  IF data # NoData
  THEN Claims_add(elem)
  ELSE Item_claims_fetch(Entities, "claims.add")

(* ------------------------------- Edit ---------------------------------- *)
(* An Edit object is [summary, changes]; _changes is an InfiniteDict, kept *)
(* as a function from a part to its tree of markers.                       *)
Summaries == 0..NumSummaries

(* with Edit(entity) as e: e.summary = summary                             *)
(* Edit.__init__ and Edit.__enter__ assign nothing on the entity.          *)
Edit_enter(summary) ==
  /\ edit = NoEdit
  /\ edit' = <<[summary |-> summary, changes |-> EmptyDict]>>
  /\ last' = Returned("edit.enter", 0)
  /\ UNCHANGED <<held, id, tokens, lookups, http, current_edit, data, labels, descriptions, aliases, claims, unsaved>>

(* self._changes[key]: an InfiniteDict yields an empty one for a new key   *)
Edit_changes_getitem(changes, key) == IF key \in DOMAIN changes THEN changes[key] ELSE <<>>

(* the changes dict built by Edit.__exit__: one fragment for every part    *)
Edit_changes ==
  [key \in {"labels", "descriptions", "aliases", "claims"} |->
     LET changed == Edit_changes_getitem(edit[1].changes, key)
     IN CASE key = "labels" -> Labels_changes_to_json(labels, changed)
          [] key = "descriptions" -> Descriptions_changes_to_json(descriptions, changed)
          [] key = "aliases" -> Aliases_changes_to_json(aliases, changed)
          [] key = "claims" -> Claims_changes_to_json(claims, changed)]

(* Edit.__exit__, when the with-block is left: through an exception (the   *)
(* parts are rebuilt from _data if there is one, and the exception goes on *)
(* to the caller), or normally (one edit request, answered or failing).    *)
Edit_exit(Entities) ==
  /\ edit # NoEdit
  /\ edit' = NoEdit
  /\ \/ /\ IF data # NoData
           THEN Entity_update_from_json(data[1])
           ELSE UNCHANGED <<held, data, labels, descriptions, aliases, claims>>
        /\ last' = Raised("edit.exit", "Exception", 0)
     \/ /\ \E json \in Entities :
             /\ id # None => json.id = id
             /\ Entity_update_from_json(json)
        /\ last' = [Returned("edit.exit", 0) EXCEPT !.sent = Edit_changes,
                                                   !.requests = <<"wbeditentity">>,
                                                   !.summary = edit[1].summary]
     \/ /\ aliases' = Aliases_store_after_changes(
                         aliases, Edit_changes_getitem(edit[1].changes, "aliases"))
        /\ last' = [Raised("edit.exit", "APIError", 0) EXCEPT !.sent = Edit_changes,
                                                             !.requests = <<"wbeditentity">>,
                                                             !.summary = edit[1].summary]
        /\ UNCHANGED <<held, data, labels, descriptions, claims>>
  /\ UNCHANGED <<id, tokens, lookups, http, current_edit, unsaved>>

(* with ChangeContext(entity, changed_path): pass                          *)
(* __enter__ raises unless the entity has a current edit; __exit__ marks   *)
(* the path in the current edit's _changes.                                *)
ChangeContext_with(changed_path) ==
  IF current_edit = None
  THEN /\ last' = Raised("changecontext", "NoCurrentEditError", 0)
       /\ UNCHANGED <<held, id, tokens, lookups, http, current_edit, edit, data, labels, descriptions, aliases, claims,
                      unsaved>>
  ELSE /\ edit' = [edit EXCEPT ![1].changes = Notify(@, changed_path)]
       /\ last' = Returned("changecontext", 0)
       /\ UNCHANGED <<held, id, tokens, lookups, http, current_edit, data, labels, descriptions, aliases, claims, unsaved>>

(* ------------------------- server answers ------------------------------ *)
LangMaps(V) == UNION {[D -> V] : D \in SUBSET Langs}
JsonTexts == {[l \in DOMAIN m |-> [language |-> l, value |-> m[l]]] : m \in LangMaps(Texts)}
EntityJson(l, d, a, c) ==
  [id |-> TEST_ITEM, labels |-> l, descriptions |-> d, aliases |-> a, claims |-> c]

(* The site of the entity.  MediaWiki.__init__ leaves the wallet empty and  *)
(* no request in progress; a site that has saved before holds the CSRF     *)
(* token, so that the token lookup of a save is served from the wallet.    *)
NoCall == <<>>
MediaWiki_init == tokens = EmptyDict /\ lookups = <<>> /\ http = NoCall
Site_in_use == tokens = [key \in {"csrftoken"} |-> 1] /\ lookups = <<>> /\ http = NoCall

(* Item.__init__ / Property.__init__: unbound (no id, nothing fetched) or  *)
(* bound and eagerly fetched.                                              *)
Construct(Entities) ==
  /\ unsaved = EmptyDict
  /\ held = NoHandle
  /\ current_edit = None
  /\ edit = NoEdit
  /\ \/ /\ id = None
        /\ data = NoData
        /\ labels = EmptyDict
        /\ descriptions = EmptyDict
        /\ aliases = EmptyDict
        /\ claims = <<>>
        /\ last = Returned("init", 0)
     \/ \E json \in Entities :
        /\ id = json.id
        /\ data = <<json>>
        /\ labels = Labels_update_from_json(json.labels)
        /\ descriptions = Descriptions_update_from_json(json.descriptions)
        /\ aliases = Aliases_update_from_json(json.aliases)
        /\ claims = Claims_update_from_json(json.claims)
        /\ last = [Returned("fetch", 0) EXCEPT !.requests = <<"wbgetentities">>]

RECURSIVE SeqOfSet(_)
SeqOfSet(S) ==
  IF S = {} THEN <<>>
  ELSE LET m == CHOOSE x \in S : \A y \in S : x <= y
       IN <<m>> \o SeqOfSet(S \ {m})

JsonAliases ==
  {[l \in DOMAIN m |->
      LET as == SeqOfSet(m[l])
      IN [i \in 1..Len(as) |-> [language |-> l, value |-> as[i]]]]
   : m \in LangMaps((SUBSET AliasTexts) \ {{}})}

(* Snaks and statements the caller builds (Wikibase.snak, Wikibase.claim)  *)
QualProp == CHOOSE p \in Props : \A q \in Props : p <= q
QualSnaks == {[kind |-> "value", p |-> QualProp, value |-> v] : v \in 1..NumQuals}
NewStatements == {Wikibase_claim(h, p, 0, None, <<>>) : h \in 1..NumObjs, p \in Props}

(* Statements as the server sends them: statement i has main value i, a    *)
(* property and a set of qualifier values.                                 *)
SnakJson(p, v) ==
  [snaktype |-> "value", property |-> p, datavalue |-> [type |-> "string", value |-> v]]
QualifiersJson(Q) ==
  IF Q = {} THEN <<>>
  ELSE LET vs == SeqOfSet(Q)
       IN <<[key |-> QualProp, list |-> [i \in 1..Len(vs) |-> SnakJson(QualProp, vs[i])]]>>
StatementJson(i, opt) ==
  [type |-> "statement", id |-> i, mainsnak |-> SnakJson(opt.p, i), rank |-> "normal",
   qualifiers |-> QualifiersJson(opt.quals), references |-> <<>>]
StatementOpts == [p : Props, quals : SUBSET (1..NumQuals)]
ClaimsJson(g) ==
  LET ps == SeqOfSet({g[i].p : i \in DOMAIN g})
  IN [k \in 1..Len(ps) |->
        [key |-> ps[k],
         list |-> LET ids == SeqOfSet({i \in DOMAIN g : g[i].p = ps[k]})
                  IN [n \in 1..Len(ids) |-> StatementJson(ids[n], g[ids[n]])]]]
JsonClaims == {ClaimsJson(g) : g \in UNION {[S -> StatementOpts] : S \in SUBSET StmtIds}}

(* the statements currently in the claims part, with their positions       *)
Positions == {<<g, k>> \in (1..Len(claims)) \X (1..(NumStmts + NumObjs)) :
                k <= Len(claims[g].group)}
Live == {claims[pos[1]].group[pos[2]] : pos \in Positions}
LiveSeq == SnakSet_iter(claims)

(* ---------------- labels and descriptions of one entity ---------------- *)
(* The server's entity carries labels or descriptions, and the caller      *)
(* edits one of the two parts of an entity.                                *)
EntitiesText ==
  {EntityJson(l, EmptyDict, EmptyDict, <<>>) : l \in JsonTexts}
  \cup {EntityJson(EmptyDict, d, EmptyDict, <<>>) : d \in JsonTexts}

InitText == Construct(EntitiesText) /\ Site_in_use

NextText ==
  \/ /\ "descriptions" \notin DOMAIN unsaved
     /\ \E key \in Langs, value \in Texts : Labels_setitem(key, value)
  \/ /\ "descriptions" \notin DOMAIN unsaved
     /\ \E key \in Langs : Labels_delitem(key)
  \/ /\ "labels" \notin DOMAIN unsaved
     /\ \E key \in Langs, value \in Texts : Descriptions_setitem(key, value)
  \/ /\ "labels" \notin DOMAIN unsaved
     /\ \E key \in Langs : Descriptions_delitem(key)
  \/ Fetch(EntitiesText)
  \/ Save(EntitiesText)

SpecText == InitText /\ [][NextText]_vars

(* --------------------------- aliases of one entity --------------------- *)
EntitiesAliases == {EntityJson(EmptyDict, EmptyDict, a, <<>>) : a \in JsonAliases}

InitAliases == Construct(EntitiesAliases) /\ Site_in_use

NextAliases ==
  \/ \E key \in Langs : Aliases_lookup(key)
  \/ \E key \in Langs, value \in AliasTexts : AliasSet_add(key, value)
  \/ \E key \in Langs, value \in AliasTexts : AliasSet_discard(key, value)
  \/ \E key \in Langs : AliasSet_clear(key)
  \/ Fetch(EntitiesAliases)
  \/ Save(EntitiesAliases)

SpecAliases == InitAliases /\ [][NextAliases]_vars

(* --------------------------- claims of one entity ---------------------- *)
EntitiesClaims == {EntityJson(EmptyDict, EmptyDict, EmptyDict, c) : c \in JsonClaims}

InitClaims == Construct(EntitiesClaims) /\ Site_in_use

NextClaims ==
  \/ \E elem \in NewStatements : Claims_add(elem)
  \/ \E elem \in Live \cup NewStatements : Claims_remove(elem)
  \/ \E pos \in Positions, snak \in QualSnaks : Qualifiers_add(pos[1], pos[2], snak)
  \/ \E pos \in Positions, snak \in QualSnaks : Qualifiers_remove(pos[1], pos[2], snak)
  \/ Fetch(EntitiesClaims)
  \/ Save(EntitiesClaims)

SpecClaims == InitClaims /\ [][NextClaims]_vars

(* ------------------------ all parts of one entity ---------------------- *)
(* Every part of the server's entity is empty or holds its first entry:    *)
(* language 1 with text 1, alias 1 of language 1, statement 1.             *)
FirstOnly(json) == DOMAIN json \subseteq {1}
EntitiesAll ==
  {EntityJson(l, d, a, c) :
     l \in {j \in JsonTexts : FirstOnly(j) /\ \A k \in DOMAIN j : j[k].value = 1},
     d \in {j \in JsonTexts : FirstOnly(j) /\ \A k \in DOMAIN j : j[k].value = 1},
     a \in {j \in JsonAliases : FirstOnly(j) /\ \A k \in DOMAIN j : Len(j[k]) = 1},
     c \in {j \in JsonClaims : \A g \in 1..Len(j) :
              /\ Len(j[g].list) = 1
              /\ j[g].list[1].id = 1
              /\ j[g].list[1].mainsnak.property = QualProp
              /\ j[g].list[1].qualifiers = <<>>}}

InitAll == Construct(EntitiesAll) /\ Site_in_use

NextAll ==
  \/ Labels_setitem(1, 1)
  \/ Labels_delitem(1)
  \/ Descriptions_setitem(1, 1)
  \/ Descriptions_delitem(1)
  \/ AliasSet_add(1, 1)
  \/ AliasSet_discard(1, 1)
  \/ \E elem \in {e \in NewStatements : e.obj = 1 /\ P(e) = QualProp} : Claims_add(elem)
  \/ \E elem \in Live : Claims_remove(elem)
  \/ Fetch(EntitiesAll)
  \/ Save(EntitiesAll)

SpecAll == InitAll /\ [][NextAll]_vars

(* ---------------- statements of one entity and their ranks ------------- *)
EntitiesStatements ==
  {json \in EntitiesClaims :
     \A n \in 1..Len(ChainValues(json.claims)) : ChainValues(json.claims)[n].qualifiers = <<>>}

InitStatements == Construct(EntitiesStatements) /\ Site_in_use

NextStatements ==
  \/ \E elem \in NewStatements : Claims_add(elem)
  \/ \E elem \in Live : Claims_remove(elem)
  \/ \E pos \in Positions, value \in Ranks : Statement_set_rank(pos[1], pos[2], value)
  \/ \E p \in Props : Claims_p_len(p)
  \/ \E p \in Props : Claims_p_iter(p)
  \/ \E p \in Props, elem \in Live \cup NewStatements : Claims_p_contains(p, elem)
  \/ Fetch(EntitiesStatements)
  \/ Save(EntitiesStatements)

SpecStatements == InitStatements /\ [][NextStatements]_vars

(* ---------------------- scoped edits of one entity --------------------- *)
NextEdit ==
  \/ \E summary \in Summaries : Edit_enter(summary)
  \/ Labels_setitem(1, 1)
  \/ Labels_delitem(1)
  \/ Descriptions_setitem(1, 1)
  \/ AliasSet_add(1, 1)
  \/ \E elem \in {e \in NewStatements : e.obj = 1 /\ P(e) = QualProp} : Claims_add(elem)
  \/ Edit_exit(EntitiesAll)
  \/ ChangeContext_with(<<"labels", 1>>)

SpecEdit == InitAll /\ [][NextEdit]_vars

(* ------------------------ an Item and its claims ----------------------- *)
NextItem ==
  \/ Labels_setitem(1, 1)
  \/ Labels_delitem(1)
  \/ Descriptions_setitem(1, 1)
  \/ \E key \in Langs : Aliases_lookup(key)
  \/ AliasSet_add(1, 1)
  \/ Item_claims_len(EntitiesAll)
  \/ \E elem \in {e \in NewStatements : e.obj = 1 /\ P(e) = QualProp} :
       Item_claims_add(EntitiesAll, elem)
  \/ Save(EntitiesAll)

SpecItem == InitAll /\ [][NextItem]_vars

(* -------------- the qualifiers of the statement of one entity ---------- *)
(* The entity has at most one statement: one the server sent, or one the   *)
(* caller built from an iterable of snaks and added.  Snaks are added to   *)
(* its qualifiers and looked up in them, none is removed.                  *)
SnakProps == 1..NumSnakProps
AllSnaks == {Wikibase_snak(p, value) : p \in SnakProps, value \in 1..NumSnakValues}
Iterables == {<<a>> : a \in AllSnaks} \cup {<<a, b>> : a \in AllSnaks, b \in AllSnaks}
BuiltStatements ==
  {Wikibase_claim(1, QualProp, 0, None, <<>>)}
  \cup {Wikibase_claim(1, QualProp, 0, None, <<iterable>>) : iterable \in Iterables}

SnakSetJson(Q) ==
  LET ps == SeqOfSet({snak.p : snak \in Q})
  IN [k \in 1..Len(ps) |->
        [key |-> ps[k],
         list |-> LET vs == SeqOfSet({snak.value : snak \in {x \in Q : x.p = ps[k]}})
                  IN [i \in 1..Len(vs) |-> SnakJson(ps[k], vs[i])]]]
EntitiesSnakSet ==
  {EntityJson(EmptyDict, EmptyDict, EmptyDict, <<>>)}
  \cup {EntityJson(EmptyDict, EmptyDict, EmptyDict,
                   <<[key |-> QualProp,
                      list |-> <<[type |-> "statement", id |-> 1,
                                  mainsnak |-> SnakJson(QualProp, 1), rank |-> Rank_NORMAL,
                                  qualifiers |-> SnakSetJson(Q), references |-> <<>>]>>]>>)
         : Q \in SUBSET AllSnaks}

InitSnakSet == Construct(EntitiesSnakSet) /\ Site_in_use

NextSnakSet ==
  \/ /\ LiveSeq = <<>>
     /\ \E elem \in BuiltStatements : Claims_add(elem)
  \/ \E pos \in Positions, snak \in AllSnaks : Qualifiers_add(pos[1], pos[2], snak)
  \/ \E pos \in Positions, snak \in AllSnaks : Qualifiers_contains(pos[1], pos[2], snak)
  \/ \E pos \in Positions : Qualifiers_len(pos[1], pos[2])
  \/ \E pos \in Positions, p \in SnakProps : Qualifiers_p_len(pos[1], pos[2], p)
  \/ Fetch(EntitiesSnakSet)

SpecSnakSet == InitSnakSet /\ [][NextSnakSet]_vars

(* ----------------------- values on the wire ---------------------------- *)
(* A Python value is a record tagged with its type in `py`.  A str is kept *)
(* as the sequence of its parts where the code looks into it (the text of  *)
(* a Decimal, the time of a Time) and as one opaque part otherwise.        *)
PyNone == [py |-> "None"]
Str(s) == [py |-> "str", s |-> s]
Float(x) == [py |-> "float", x |-> x]
Dec(n) == [py |-> "Decimal", n |-> n]

(* the outcome of a call: the value returned or the exception raised       *)
Ok(value) == [status |-> "ok", value |-> value]
Err(error) == [status |-> error]

(* dict.get(key): None for a missing key                                   *)
Get(d, key) == IF key \in DOMAIN d THEN d[key] ELSE PyNone

(* bool(x), as `x if x else None` evaluates it: None is false, a Decimal   *)
(* is false when it is zero, a str when it is empty                        *)
Truthy(x) ==
  IF x.py = "None" THEN FALSE
  ELSE IF x.py = "Decimal" THEN x.n # 0
  ELSE IF x.py = "str" THEN x.s # <<>>
  ELSE TRUE

(* str(Decimal): a minus sign for a negative number, then its digits;      *)
(* Decimal(str): an optional sign, then the digits                         *)
DigitChars == <<"0", "1", "2", "3", "4", "5", "6", "7", "8", "9">>
DigitOf(char) == (CHOOSE i \in 1..Len(DigitChars) : DigitChars[i] = char) - 1
RECURSIVE DigitsOf(_)
DigitsOf(n) ==
  IF n < Len(DigitChars) THEN <<DigitChars[n + 1]>>
  ELSE Append(DigitsOf(n \div Len(DigitChars)), DigitChars[(n % Len(DigitChars)) + 1])
RECURSIVE NumberOf(_)
NumberOf(chars) ==
  IF chars = <<>> THEN 0
  ELSE NumberOf(SubSeq(chars, 1, Len(chars) - 1)) * Len(DigitChars) + DigitOf(chars[Len(chars)])
Decimal_str(d) == Str(IF d.n < 0 THEN <<"-">> \o DigitsOf(0 - d.n) ELSE DigitsOf(d.n))
Decimal_new(x) ==
  IF x.py = "Decimal" THEN x
  ELSE IF Head(x.s) = "-" THEN Dec(0 - NumberOf(Tail(x.s)))
  ELSE IF Head(x.s) = "+" THEN Dec(NumberOf(Tail(x.s)))
  ELSE Dec(NumberOf(x.s))

TheSite == "test.wikidata.org"

EntityId_new(site, entity_id) == [py |-> "EntityId", site |-> site, id |-> entity_id]
EntityId_from_json(site, json) == EntityId_new(site, json.value.id)
EntityId_to_json(self) == [type |-> "wikibase-entityid", value |-> [id |-> self.id]]

MonolingualText_new(text, language) ==
  [py |-> "MonolingualText", text |-> text, language |-> language]
MonolingualText_from_json(site, json) ==
  MonolingualText_new(json.value.text, json.value.language)
MonolingualText_to_json(self) ==
  [type |-> "monolingualtext", value |-> [text |-> self.text, language |-> self.language]]

GlobeCoordinate_new(latitude, longitude, precision, globe) ==
  [py |-> "GlobeCoordinate", latitude |-> latitude, longitude |-> longitude,
   precision |-> precision, globe |-> globe]
GlobeCoordinate_from_json(site, json) ==
  GlobeCoordinate_new(json.value.latitude, json.value.longitude,
                      json.value.precision, json.value.globe)
GlobeCoordinate_to_json(self) ==
  [type |-> "globecoordinate",
   value |-> [latitude |-> self.latitude, longitude |-> self.longitude,
              precision |-> self.precision, globe |-> self.globe]]

Quantity_new(amount, unit, upper_bound, lower_bound) ==
  [py |-> "Quantity", amount |-> amount, unit |-> unit,
   upper_bound |-> upper_bound, lower_bound |-> lower_bound]
Quantity_from_json(site, json) ==
  LET value == json.value
      upper_bound == Get(value, "uppperBound")
      lower_bound == Get(value, "lowerBound")
  IN Quantity_new(Decimal_new(value.amount), value.unit,
                  IF Truthy(upper_bound) THEN Decimal_new(upper_bound) ELSE PyNone,
                  IF Truthy(lower_bound) THEN Decimal_new(lower_bound) ELSE PyNone)
Quantity_to_json(self) ==
  [type |-> "quantity",
   value |-> [amount |-> Decimal_str(self.amount), unit |-> self.unit,
              lowerBound |-> self.lower_bound, upperBound |-> self.upper_bound]]

(* The str of a Time is [sign, date, rest]: an optional sign, the digits   *)
(* and dashes of the date, and whatever follows them, kept as the sequence *)
(* of the time-of-day texts ("T00:00:00Z") appended to the date.           *)
Time_GREGORIAN == "http://www.wikidata.org/entity/Q1985727"
Time_JULIAN == "http://www.wikidata.org/entity/Q1985786"
Time_MIDNIGHT == "T00:00:00Z"
Time_new(time, precision, calendar_model) ==
  [py |-> "Time",
   time |-> IF time.sign = "" THEN [time EXCEPT !.sign = "+"] ELSE time,
   precision |-> precision, calendar_model |-> calendar_model]
(* re.match of from_json: a sign, a date and one time of day; group 1 is   *)
(* the sign and the date.  No match is None, and None[1] a TypeError.      *)
Time_from_json(site, json) ==
  LET value == json.value
  IN IF value.time.sign # "" /\ value.time.rest # <<>>
     THEN Ok(Time_new([value.time EXCEPT !.rest = <<>>], value.precision, value.calendarmodel))
     ELSE Err("TypeError")
Time_to_json(self) ==
  [type |-> "time",
   value |-> [time |-> [self.time EXCEPT !.rest = Append(@, Time_MIDNIGHT)],
              precision |-> self.precision, calendarmodel |-> self.calendar_model,
              timezone |-> 0, before |-> 0, after |-> 0]]

(* _value_from_json: the dict of constructors, keyed by json["type"]       *)
ValueTypes ==
  {"string", "wikibase-entityid", "monolingualtext", "globecoordinate", "quantity", "time"}
Value_from_json(site, json) ==
  IF json.type \notin ValueTypes THEN Err("KeyError")
  ELSE IF json.type = "string" THEN Ok(json.value)
  ELSE IF json.type = "wikibase-entityid" THEN Ok(EntityId_from_json(site, json))
  ELSE IF json.type = "monolingualtext" THEN Ok(MonolingualText_from_json(site, json))
  ELSE IF json.type = "globecoordinate" THEN Ok(GlobeCoordinate_from_json(site, json))
  ELSE IF json.type = "quantity" THEN Ok(Quantity_from_json(site, json))
  ELSE Time_from_json(site, json)

(* the datavalue of PropertyValueSnak.to_json: a str is wrapped as a       *)
(* "string", every other value renders itself                              *)
Value_to_json(value) ==
  IF value.py = "str" THEN [type |-> "string", value |-> value]
  ELSE IF value.py = "EntityId" THEN EntityId_to_json(value)
  ELSE IF value.py = "MonolingualText" THEN MonolingualText_to_json(value)
  ELSE IF value.py = "GlobeCoordinate" THEN GlobeCoordinate_to_json(value)
  ELSE IF value.py = "Quantity" THEN Quantity_to_json(value)
  ELSE Time_to_json(value)

(* _value_from_json(site, value.to_json())                                 *)
Value_roundtrip(value) ==
  /\ last' = Answered("value.roundtrip", value, Value_from_json(TheSite, Value_to_json(value)))
  /\ UNCHANGED <<held, id, tokens, lookups, http, current_edit, edit, data, labels, descriptions, aliases,
                 claims, unsaved>>

(* ------------------------- snaks on the wire --------------------------- *)
(* A snak is [kind, p] with p an EntityId, and a value for kind "value".   *)
PropertyValueSnak_new(p, value) == [kind |-> "value", p |-> p, value |-> value]
PropertyNoValueSnak_new(p) == [kind |-> "novalue", p |-> p]
PropertySomeValueSnak_new(p) == [kind |-> "somevalue", p |-> p]

(* PropertySnak.from_json: the snaktype selects the class; the value of a  *)
(* value snak is parsed by _value_from_json, whose exception goes on       *)
PropertySnak_from_json(site, json) ==
  IF json.snaktype = "value"
  THEN LET value == Value_from_json(site, json.datavalue)
       IN IF value.status = "ok"
          THEN Ok(PropertyValueSnak_new(EntityId_new(site, json.property), value.value))
          ELSE value
  ELSE IF json.snaktype = "novalue"
  THEN Ok(PropertyNoValueSnak_new(EntityId_new(site, json.property)))
  ELSE IF json.snaktype = "somevalue"
  THEN Ok(PropertySomeValueSnak_new(EntityId_new(site, json.property)))
  ELSE Err("ValueError")

(* to_json of the three classes                                            *)
PropertySnak_to_json(self) ==
  IF self.kind = "value"
  THEN [snaktype |-> "value", property |-> self.p.id, datavalue |-> Value_to_json(self.value)]
  ELSE [snaktype |-> self.kind, property |-> self.p.id]

(* == on two values: dataclasses of one class compare field by field,      *)
(* values of different classes are unequal                                 *)
Value_eq(a, b) == a.py = b.py /\ a = b

(* __eq__ of the three classes: the same class, the same property and,     *)
(* for value snaks, the same value                                         *)
PropertySnak_eq(self, other) ==
  IF self.kind = "value"
  THEN other.kind = "value" /\ self.p = other.p /\ Value_eq(self.value, other.value)
  ELSE other.kind = self.kind /\ self.p = other.p

(* PropertySnak.from_json(site, snak.to_json())                            *)
Snak_roundtrip(snak) ==
  /\ last' = Answered("snak.roundtrip", snak,
                      PropertySnak_from_json(TheSite, PropertySnak_to_json(snak)))
  /\ UNCHANGED <<held, id, tokens, lookups, http, current_edit, edit, data, labels, descriptions, aliases,
                 claims, unsaved>>

(* snak == other                                                           *)
Snak_compare(snak, other) ==
  /\ last' = Answered("snak.eq", <<snak, other>>, PropertySnak_eq(snak, other))
  /\ UNCHANGED <<held, id, tokens, lookups, http, current_edit, edit, data, labels, descriptions, aliases,
                 claims, unsaved>>

(* ----------------------- statements on the wire ------------------------ *)
(* A JSON container carries its Python type: a list is [py, items], a dict *)
(* whose keys are data is [py, entries] with entries [key, value] in       *)
(* insertion order.  A JSON object with fixed keys is a record.            *)
PyList(items) == [py |-> "list", items |-> items]
PyDict(entries) == [py |-> "dict", entries |-> entries]

(* x.values(): a dict has the method, a list has not                       *)
Dict_values(x) ==
  IF x.py = "dict" THEN Ok([i \in 1..Len(x.entries) |-> x.entries[i].value])
  ELSE Err("AttributeError")

(* itertools.chain.from_iterable over lists                                *)
RECURSIVE ChainLists(_)
ChainLists(lists) ==
  IF lists = <<>> THEN <<>> ELSE Head(lists).items \o ChainLists(Tail(lists))

(* the loop of SnakSet._update_from_json with PropertySnak.from_json as    *)
(* its factory: the first exception of the factory ends it                 *)
RECURSIVE SnakSet_fill(_, _, _)
SnakSet_fill(site, store, jsons) ==
  IF jsons = <<>> THEN Ok(store)
  ELSE LET elem == PropertySnak_from_json(site, Head(jsons))
       IN IF elem.status = "ok"
          THEN SnakSet_fill(site, SnakSet_append(store, elem.value), Tail(jsons))
          ELSE elem

(* SnakSet._update_from_json as Qualifiers and ReferenceRecord use it      *)
SnakSet_update_from_json(site, json_snak_dict) ==
  LET values == Dict_values(json_snak_dict)
  IN IF values.status = "ok" THEN SnakSet_fill(site, <<>>, ChainLists(values.value))
     ELSE values

(* SnakSet.to_json: the list of the JSON of every snak                     *)
SnakSet_to_json_list(store) ==
  LET snaks == SnakSet_iter(store)
  IN PyList([i \in 1..Len(snaks) |-> PropertySnak_to_json(snaks[i])])

(* A ReferenceRecord is [hash, store], with hash None until the server     *)
(* gives one.                                                              *)
ReferenceRecord_new(hash, store) == [hash |-> hash, store |-> store]
ReferenceRecord_to_json(self) ==
  IF self.hash # PyNone
  THEN [snaks |-> SnakSet_to_json_list(self.store), hash |-> self.hash]
  ELSE [snaks |-> SnakSet_to_json_list(self.store)]

(* References._update_from_json: a record per JSON record, in order        *)
RECURSIVE References_update_from_json(_, _, _)
References_update_from_json(site, store, json_list) ==
  IF json_list = <<>> THEN Ok(store)
  ELSE LET json_record == Head(json_list)
       IN IF "hash" \notin DOMAIN json_record THEN Err("KeyError")
          ELSE LET snaks == SnakSet_update_from_json(site, json_record.snaks)
               IN IF snaks.status = "ok"
                  THEN References_update_from_json(
                         site, Append(store, ReferenceRecord_new(json_record.hash, snaks.value)),
                         Tail(json_list))
                  ELSE snaks

References_to_json(store) ==
  PyList([i \in 1..Len(store) |-> ReferenceRecord_to_json(store[i])])

(* References.from_iterable(site, iterable), a static method: iter(None)   *)
(* is a TypeError, and the loop body names `self`, which is not defined    *)
(* there, so the first record raises NameError.  `iterable` is <<>> for    *)
(* None and <<list>> for a list.                                           *)
References_from_iterable(site, iterable) ==
  IF iterable = <<>> THEN Err("TypeError")
  ELSE IF iterable[1] = <<>> THEN Ok(<<>>)
  ELSE Err("NameError")

(* Statement.__init__ with its references argument: None gives no          *)
(* references, anything else the outcome of                                *)
(* References.from_iterable(site, qualifiers).  Whenever the constructor   *)
(* returns, the references are empty, as Statement_init has them.          *)
Statement_new(obj, mainsnak, rank, qualifiers, references, statement_id) ==
  LET built == IF references = <<>> THEN Ok(<<>>)
               ELSE References_from_iterable(TheSite, qualifiers)
  IN IF built.status = "ok"
     THEN Ok([Statement_init(obj, mainsnak, rank, qualifiers, statement_id)
                EXCEPT !.references = built.value])
     ELSE built

(* Statement.from_json, with the exception it raises if it raises one:     *)
(* the mainsnak, Rank(json["rank"]), json["id"], the qualifiers, the       *)
(* references, in this order                                               *)
Statement_from_json_call(site, json) ==
  LET mainsnak == PropertySnak_from_json(site, json.mainsnak)
      qualifiers == SnakSet_update_from_json(
                      site, IF "qualifiers" \in DOMAIN json THEN json.qualifiers ELSE PyDict(<<>>))
      references == References_update_from_json(
                      site, <<>>,
                      IF "references" \in DOMAIN json THEN json.references.items ELSE <<>>)
  IN IF mainsnak.status # "ok" THEN mainsnak
     ELSE IF json.rank \notin Ranks THEN Err("ValueError")
     ELSE IF "id" \notin DOMAIN json THEN Err("KeyError")
     ELSE IF qualifiers.status # "ok" THEN qualifiers
     ELSE IF references.status # "ok" THEN references
     ELSE Ok([id |-> json.id, obj |-> 0, listener |-> <<>>, mainsnak |-> mainsnak.value,
              rank |-> json.rank, qualifiers |-> qualifiers.value,
              references |-> references.value])

(* Statement.to_json, every container with its Python type                 *)
Statement_to_json_call(self) ==
  LET json == [type |-> "statement",
               mainsnak |-> PropertySnak_to_json(self.mainsnak),
               rank |-> self.rank,
               qualifiers |-> SnakSet_to_json_list(self.qualifiers),
               references |-> References_to_json(self.references)]
  IN IF self.id # PyNone
     THEN [type |-> json.type, mainsnak |-> json.mainsnak, rank |-> json.rank,
           qualifiers |-> json.qualifiers, references |-> json.references, id |-> self.id]
     ELSE json

(* Statement.from_json(site, statement.to_json())                          *)
Statement_roundtrip(statement) ==
  /\ last' = Answered("statement.roundtrip", statement,
                      [json |-> Statement_to_json_call(statement),
                       parsed |-> Statement_from_json_call(TheSite,
                                                           Statement_to_json_call(statement))])
  /\ UNCHANGED <<held, id, tokens, lookups, http, current_edit, edit, data, labels, descriptions, aliases,
                 claims, unsaved>>

(* site.claim(p, value, rank, qualifiers, references) and, if it returns,  *)
(* the to_json of the statement                                            *)
Wikibase_claim_call(p, value, rank, qualifiers, references) ==
  LET built == Statement_new(1, Wikibase_snak(p, value),
                             IF rank = None THEN Rank_NORMAL ELSE rank,
                             qualifiers, references, PyNone)
  IN /\ last' = Answered("claim", [qualifiers |-> qualifiers, references |-> references],
                         IF built.status = "ok"
                         THEN [status |-> "ok", value |-> built.value,
                               json |-> Statement_to_json_call(built.value)]
                         ELSE built)
     /\ UNCHANGED <<held, id, tokens, lookups, http, current_edit, edit, data, labels, descriptions, aliases,
                    claims, unsaved>>

(* ------------------------- the API transport --------------------------- *)
(* MediaWiki._post_api_request.  The call in progress is                   *)
(* [pc, request, log, result]: pc is "sent" while a POST awaits its        *)
(* outcome and "done" once the call has returned or raised; the log lists, *)
(* in order, every POST made, every outcome received and every sleep.      *)
BACKOFF == 60
Post(request) == [ev |-> "post", request |-> request]
Got(outcome) == [ev |-> "got", outcome |-> outcome]
Sleep(seconds) == [ev |-> "sleep", seconds |-> seconds]
NoResult == [status |-> "none"]
Calling == http # NoCall /\ http.pc = "sent"
Attempts == Cardinality({i \in 1..Len(http.log) : http.log[i].ev = "post"})

(* site.api(...) reaches _post_api_request(headers, data): the first POST  *)
Post_api_request(request) ==
  /\ ~Calling
  /\ http' = [pc |-> "sent", request |-> request, log |-> <<Post(request)>>,
              result |-> NoResult]
  /\ UNCHANGED <<held, id, tokens, lookups, current_edit, edit, data, labels, descriptions, aliases, claims,
                 unsaved, last>>

(* `continue`, or the end of an except block: the loop posts again         *)
Retry(outcome, sleeps) ==
  /\ Attempts < MaxAttempts
  /\ http' = [http EXCEPT !.log = @ \o <<Got(outcome)>> \o sleeps \o <<Post(http.request)>>]
(* `return body` or an exception that leaves the loop                      *)
Finish(outcome, result) ==
  http' = [http EXCEPT !.pc = "done", !.log = Append(@, Got(outcome)), !.result = result]

(* mutant: a server error is raised to the caller                          *)
Response_raising_server_errors(r) ==
  /\ Calling
  /\ IF 400 <= r.status_code /\ r.status_code <= 599 THEN Finish(r, Err("HTTPError"))
     ELSE IF r.retry_after # <<>> THEN Retry(r, <<Sleep(r.retry_after[1])>>)
     ELSE IF r.api_error THEN Finish(r, [status |-> "APIError", errors |-> r.body.errors])
     ELSE Finish(r, Ok(r.body))
  /\ UNCHANGED <<held, id, tokens, lookups, current_edit, edit, data, labels, descriptions, aliases, claims,
                 unsaved, last>>

(* mutant: the delay the server asks for is replaced by the fixed backoff  *)
Response_with_fixed_delay(r) ==
  /\ Calling
  /\ IF 500 <= r.status_code /\ r.status_code <= 599 THEN Retry(r, <<Sleep(BACKOFF)>>)
     ELSE IF 400 <= r.status_code /\ r.status_code <= 599 THEN Finish(r, Err("HTTPError"))
     ELSE IF r.retry_after # <<>> THEN Retry(r, <<Sleep(BACKOFF)>>)
     ELSE IF r.api_error THEN Finish(r, [status |-> "APIError", errors |-> r.body.errors])
     ELSE Finish(r, Ok(r.body))
  /\ UNCHANGED <<held, id, tokens, lookups, current_edit, edit, data, labels, descriptions, aliases, claims,
                 unsaved, last>>

(* mutant: a response that reports API errors is posted again              *)
Response_retrying_api_errors(r) ==
  /\ Calling
  /\ IF 500 <= r.status_code /\ r.status_code <= 599 THEN Retry(r, <<Sleep(BACKOFF)>>)
     ELSE IF 400 <= r.status_code /\ r.status_code <= 599 THEN Finish(r, Err("HTTPError"))
     ELSE IF r.retry_after # <<>> THEN Retry(r, <<Sleep(r.retry_after[1])>>)
     ELSE IF r.api_error THEN Retry(r, <<Sleep(BACKOFF)>>)
     ELSE Finish(r, Ok(r.body))
  /\ UNCHANGED <<held, id, tokens, lookups, current_edit, edit, data, labels, descriptions, aliases, claims,
                 unsaved, last>>

(* The POST is answered with the response r: a 5xx is retried after the    *)
(* backoff, raise_for_status raises for any other status from 400 on, a    *)
(* Retry-After header is obeyed, the header MediaWiki-API-Error raises     *)
(* APIError with the errors of the body, and otherwise the body returns.   *)
Response(r) ==
  /\ Calling
  /\ IF 500 <= r.status_code /\ r.status_code <= 599 THEN Retry(r, <<Sleep(BACKOFF)>>)
     ELSE IF 400 <= r.status_code /\ r.status_code <= 599 THEN Finish(r, Err("HTTPError"))
     ELSE IF r.retry_after # <<>> THEN Retry(r, <<Sleep(r.retry_after[1])>>)
     ELSE IF r.api_error THEN Finish(r, [status |-> "APIError", errors |-> r.body.errors])
     ELSE Finish(r, Ok(r.body))
  /\ UNCHANGED <<held, id, tokens, lookups, current_edit, edit, data, labels, descriptions, aliases, claims,
                 unsaved, last>>

(* The POST raises requests.exceptions.ConnectionError                     *)
ConnectionError ==
  /\ Calling
  /\ Retry([kind |-> "ConnectionError"], <<Sleep(BACKOFF)>>)
  /\ UNCHANGED <<held, id, tokens, lookups, current_edit, edit, data, labels, descriptions, aliases, claims,
                 unsaved, last>>

(* The POST raises requests.exceptions.Timeout                             *)
Timeout ==
  /\ Calling
  /\ Retry([kind |-> "Timeout"], <<>>)
  /\ UNCHANGED <<held, id, tokens, lookups, current_edit, edit, data, labels, descriptions, aliases, claims,
                 unsaved, last>>

(* ---------------------------- the token wallet ------------------------- *)
(* key[: -len("token")]: the token type the API is asked for               *)
TokenType(key) ==
  CASE key = "csrftoken" -> "csrf"
    [] key = "watchtoken" -> "watch"
    [] key = "patroltoken" -> "patrol"

(* self._site.api("query", meta="tokens", type=type_)                      *)
TokenRequest(key) == [action |-> "query", meta |-> "tokens", type |-> TokenType(key)]

(* dict.update(other): the entries of other replace and extend those of d  *)
Dict_update(d, other) ==
  [k \in DOMAIN d \cup DOMAIN other |-> IF k \in DOMAIN other THEN other[k] ELSE d[k]]

(* one lookup as its caller and the site see it: the key, the requests it  *)
(* issued and what it returned or raised                                   *)
Lookup(key, requests, result) == [key |-> key, requests |-> requests, result |-> result]

(* self._tokens[key]                                                       *)
Tokens_subscript(store, key) == IF key \in DOMAIN store THEN Ok(store[key]) ELSE Err("KeyError")

(* mutant: the wallet asks the site on every lookup                        *)
TokenWallet_getitem_always_asking(key, answer) ==
  /\ Len(lookups) < MaxLookups
  /\ IF TRUE
     THEN IF answer.status = "ok"
          THEN /\ tokens' = Dict_update(tokens, answer.value.query.tokens)
               /\ lookups' = Append(lookups, Lookup(key, <<TokenRequest(key)>>,
                                                    Tokens_subscript(tokens', key)))
          ELSE /\ tokens' = tokens
               /\ lookups' = Append(lookups, Lookup(key, <<TokenRequest(key)>>, answer))
     ELSE /\ tokens' = tokens
          /\ lookups' = Append(lookups, Lookup(key, <<>>, Tokens_subscript(tokens, key)))
  /\ last' = Answered("tokens.getitem", 0, lookups'[Len(lookups')])
  /\ UNCHANGED <<held, id, http, current_edit, edit, data, labels, descriptions, aliases, claims,
                 unsaved>>

(* TokenWallet.__getitem__(key): a key the wallet does not hold is asked   *)
(* of the site, whose answer is the body api() returns or the exception it *)
(* raises; the tokens of the body are merged into the wallet and the key   *)
(* is read from the wallet.  An exception leaves the wallet as it was.     *)
TokenWallet_getitem(key, answer) ==
  /\ Len(lookups) < MaxLookups
  /\ IF key \notin DOMAIN tokens
     THEN IF answer.status = "ok"
          THEN /\ tokens' = Dict_update(tokens, answer.value.query.tokens)
               /\ lookups' = Append(lookups, Lookup(key, <<TokenRequest(key)>>,
                                                    Tokens_subscript(tokens', key)))
          ELSE /\ tokens' = tokens
               /\ lookups' = Append(lookups, Lookup(key, <<TokenRequest(key)>>, answer))
     ELSE /\ tokens' = tokens
          /\ lookups' = Append(lookups, Lookup(key, <<>>, Tokens_subscript(tokens, key)))
  /\ last' = Answered("tokens.getitem", 0, lookups'[Len(lookups')])
  /\ UNCHANGED <<held, id, http, current_edit, edit, data, labels, descriptions, aliases, claims,
                 unsaved>>

(* --------------------------- batch resolution -------------------------- *)
(* The loop of Claims._update_from_json with Statement.from_json as its    *)
(* factory: every statement is attached with its id and appended to the    *)
(* group of its property; the first exception of the factory ends it.      *)
RECURSIVE Claims_fill(_, _, _)
Claims_append(site, store, jsons, elem) ==
  IF elem.status = "ok"
  THEN Claims_fill(site,
                   SnakSet_append(store, [elem.value EXCEPT !.listener = <<Head(jsons).id>>]),
                   Tail(jsons))
  ELSE elem
Claims_fill(site, store, jsons) ==
  IF jsons = <<>> THEN Ok(store)
  ELSE Claims_append(site, store, jsons, Statement_from_json_call(site, Head(jsons)))

(* Claims._update_from_json(data) on an empty Claims                       *)
Claims_from_values(site, values) ==
  IF values.status = "ok" THEN Claims_fill(site, <<>>, ChainLists(values.value)) ELSE values

(* the parts of an item read from their keys of the JSON; an exception out *)
(* of the claims leaves from_json                                          *)
Item_parts(json_entity, item_claims) ==
  IF item_claims.status # "ok" THEN item_claims
  ELSE Ok([id |-> json_entity.id,
           labels |-> Labels_update_from_json(json_entity.labels),
           descriptions |-> Descriptions_update_from_json(json_entity.descriptions),
           aliases |-> Aliases_update_from_json(json_entity.aliases),
           claims |-> item_claims.value])

(* Entity.from_json for an Item: an entity marked missing raises           *)
(* ValueError, otherwise a new item is updated from the JSON               *)
Item_from_json(site, json_entity) ==
  IF "missing" \in DOMAIN json_entity THEN Err("ValueError")
  ELSE Item_parts(json_entity, Claims_from_values(site, Dict_values(json_entity.claims)))

(* list(itertools.islice(item_ids, 50)), with the batch size scaled down   *)
Islice(seq) == SubSeq(seq, 1, IF Len(seq) < BatchSize THEN Len(seq) ELSE BatchSize)
Rest(seq) == SubSeq(seq, Len(Islice(seq)) + 1, Len(seq))

(* what the consumer of the generator has got: the items yielded, the      *)
(* batches requested, and the exception that ended the iteration if any    *)
Iteration(yielded, batches, raised) ==
  [yielded |-> yielded, batches |-> batches, raised |-> raised]
NotRaised == "none"

(* `for raw_entity in r["entities"].values()`: an item is yielded, a       *)
(* ValueError is passed over, any other exception leaves the generator     *)
RECURSIVE Yield_batch(_, _, _)
Yield_item(site, raw_entities, yielded, item) ==
  IF item.status = "ok"
  THEN Yield_batch(site, Tail(raw_entities), Append(yielded, item.value))
  ELSE IF item.status = "ValueError"
  THEN Yield_batch(site, Tail(raw_entities), yielded)
  ELSE Iteration(yielded, <<>>, item.status)
Yield_batch(site, raw_entities, yielded) ==
  IF raw_entities = <<>> THEN Iteration(yielded, <<>>, NotRaised)
  ELSE Yield_item(site, raw_entities, yielded, Item_from_json(site, Head(raw_entities)))

(* the `while True` of get_items over the ids of the query result; the     *)
(* site answers a batch of ids with the raw entities it holds for them     *)
RECURSIVE Get_items_loop(_, _, _, _, _)
Get_items_batch(site, entities, item_ids, batches, done) ==
  IF done.raised # NotRaised
  THEN Iteration(done.yielded, batches, done.raised)
  ELSE Get_items_loop(site, entities, Rest(item_ids), done.yielded, batches)
Get_items_request(site, entities, item_ids, yielded, batches, batch) ==
  IF batch = <<>> THEN Iteration(yielded, batches, NotRaised)
  ELSE Get_items_batch(site, entities, item_ids, Append(batches, batch),
                       Yield_batch(site, [i \in 1..Len(batch) |-> entities[batch[i]]], yielded))
Get_items_loop(site, entities, item_ids, yielded, batches) ==
  Get_items_request(site, entities, item_ids, yielded, batches, Islice(item_ids))

(* QueryService.get_items(query), iterated to its end: the query result    *)
(* names the entities 1..Len(entities) in order                            *)
QueryService_get_items(entities) ==
  /\ last' = Answered("get_items", entities,
                      Get_items_loop(TheSite, entities, [i \in 1..Len(entities) |-> i],
                                     <<>>, <<>>))
  /\ UNCHANGED <<held, id, tokens, lookups, http, current_edit, edit, data, labels, descriptions,
                 aliases, claims, unsaved>>

(* ------------------- values, snaks and statements built ---------------- *)
(* The values a caller can construct: every field from a small set, the    *)
(* optional ones with and without None.                                    *)
Time_YEAR == 9
Time_DAY == 11
Decimals == {Dec(n) : n \in (0 - NumDecimals)..NumDecimals}
Strings == {Str(<<"eggs">>), Str(<<"spam">>)}
Units == {"1", "http://www.wikidata.org/entity/Q11573"}
Globes == {PyNone, Str(<<"http://www.wikidata.org/entity/Q2">>)}
(* the time of a Time is a date, with or without its sign                  *)
TimeStrs == [sign : {"", "+", "-"}, date : {"2018-05-04", "1990-10-03"}, rest : {<<>>}]
EntityIds == {EntityId_new(TheSite, entity_id) : entity_id \in {"Q42", "P31"}}
MonolingualTexts == {MonolingualText_new(text, language) : text \in Texts, language \in Langs}
GlobeCoordinates ==
  {GlobeCoordinate_new(c[1], c[2], precision, globe) :
     c \in (0..1) \X (0..1), precision \in {PyNone, Float(1)}, globe \in Globes}
Quantities ==
  {Quantity_new(amount, unit, b[1], b[2]) :
     amount \in Decimals, unit \in Units,
     b \in (Decimals \cup {PyNone}) \X (Decimals \cup {PyNone})}
Times ==
  {Time_new(time, precision, calendar_model) :
     time \in TimeStrs, precision \in {Time_YEAR, Time_DAY},
     calendar_model \in {Time_GREGORIAN, Time_JULIAN}}
Values == Strings \cup EntityIds \cup MonolingualTexts \cup GlobeCoordinates \cup Quantities \cup Times

InitValues == Construct({}) /\ MediaWiki_init

NextValues == \E value \in Values : Value_roundtrip(value)

SpecValues == InitValues /\ [][NextValues]_vars

SnakPids == {EntityId_new(TheSite, entity_id) : entity_id \in {"P31", "P664"}}
ValueSnaks == {PropertyValueSnak_new(p, value) : p \in SnakPids, value \in Values}
OtherSnaks ==
  {PropertyNoValueSnak_new(p) : p \in SnakPids} \cup {PropertySomeValueSnak_new(p) : p \in SnakPids}
Snaks == ValueSnaks \cup OtherSnaks
(* the snaks that are compared: those without value, and those of a value  *)
(* of each type                                                            *)
ComparedValues ==
  Strings \cup EntityIds
    \cup {MonolingualText_new(1, 1), GlobeCoordinate_new(0, 0, PyNone, PyNone),
          Quantity_new(Dec(0), "1", PyNone, PyNone), Quantity_new(Dec(1), "1", PyNone, PyNone),
          Time_new([sign |-> "+", date |-> "2018-05-04", rest |-> <<>>], Time_DAY, Time_GREGORIAN)}
ComparedSnaks == {snak \in ValueSnaks : snak.value \in ComparedValues} \cup OtherSnaks

NextSnaks ==
  \/ \E snak \in Snaks : Snak_roundtrip(snak)
  \/ \E snak \in ComparedSnaks, other \in ComparedSnaks : Snak_compare(snak, other)

SpecSnaks == InitValues /\ [][NextSnaks]_vars

(* Statements: the snaks of qualifiers and references, the iterables a     *)
(* caller passes to site.claim (<<>> for None, <<list>> for a list), the   *)
(* statement JSON a server sends, and the statements loaded from it.       *)
SeqsUpTo2(S) == {<<>>} \cup {<<a>> : a \in S} \cup {<<a, b>> : a \in S, b \in S}
QSnaks ==
  {PropertyValueSnak_new(EntityId_new(TheSite, "P31"), Str(<<"eggs">>)),
   PropertyValueSnak_new(EntityId_new(TheSite, "P664"), Str(<<"spam">>)),
   PropertyNoValueSnak_new(EntityId_new(TheSite, "P31"))}
MainSnaks == {snak \in QSnaks : snak.p.id = "P31"}
QualifierArgs == {<<>>} \cup {<<iterable>> : iterable \in SeqsUpTo2(QSnaks)}
Records ==
  {ReferenceRecord_new(PyNone, SnakSet_from_iterable(snaks)) :
     snaks \in {<<>>} \cup {<<snak>> : snak \in QSnaks}}
ReferenceArgs == {<<>>} \cup {<<iterable>> : iterable \in SeqsUpTo2(Records)}
(* a snak container as the server sends it: property id -> list of snaks   *)
SnakDictJson(snaks) ==
  LET store == SnakSet_from_iterable(snaks)
  IN PyDict([i \in 1..Len(store) |->
               [key |-> store[i].p.id,
                value |-> PyList([k \in 1..Len(store[i].group) |->
                                    PropertySnak_to_json(store[i].group[k])])]])
ServerStatements ==
  {[type |-> "statement", id |-> Str(<<"Q42$1">>),
    mainsnak |-> PropertySnak_to_json(mainsnak), rank |-> rank,
    qualifiers |-> SnakDictJson(qualifiers),
    references |-> PyList([i \in 1..Len(references) |->
                             [hash |-> Str(<<"hash", i>>), snaks |-> SnakDictJson(references[i])]])] :
     mainsnak \in MainSnaks, rank \in Ranks, qualifiers \in SeqsUpTo2(QSnaks),
     references \in SeqsUpTo2({<<>>, <<CHOOSE snak \in QSnaks : snak.kind = "value">>})}
LoadedStatements == {Statement_from_json_call(TheSite, json).value : json \in ServerStatements}
CallerStatements ==
  {Statement_new(1, mainsnak, Rank_NORMAL, qualifiers, <<>>, PyNone).value :
     mainsnak \in MainSnaks, qualifiers \in QualifierArgs}

NextWire ==
  \/ \E statement \in LoadedStatements \cup CallerStatements : Statement_roundtrip(statement)
  \/ \E qualifiers \in QualifierArgs, references \in ReferenceArgs :
       Wikibase_claim_call(EntityId_new(TheSite, "P664"), Str(<<"spam">>), None,
                           qualifiers, references)

SpecWire == InitValues /\ [][NextWire]_vars

(* --------------------------- calls of the API -------------------------- *)
(* The requests a caller makes, and the responses a server or a proxy in   *)
(* front of it can give: a status code, a Retry-After header or none, the  *)
(* header MediaWiki-API-Error or not, and the JSON body.                   *)
Requests ==
  {[headers |-> "User-Agent: wbinteract/0.1.0", data |-> [action |-> action]] :
     action \in {"purge", "unknown-action"}}
StatusCodes == {200, 429, 503}
Responses ==
  {[kind |-> "response", status_code |-> status_code, retry_after |-> retry_after,
    api_error |-> api_error,
    body |-> IF api_error THEN [errors |-> <<"badvalue">>] ELSE [batchcomplete |-> TRUE]] :
     status_code \in StatusCodes, retry_after \in {<<>>} \cup {<<n>> : n \in 1..NumDelays},
     api_error \in BOOLEAN}

InitHttp == Construct({}) /\ MediaWiki_init

NextHttp ==
  \/ \E request \in Requests : Post_api_request(request)
  \/ \E r \in Responses : Response(r)
  \/ ConnectionError
  \/ Timeout

SpecHttp == InitHttp /\ [][NextHttp]_vars

(* The token kinds asked for, and what the site answers to the request    *)
(* for one: a body with a token of that kind, a body without tokens (the   *)
(* type is not known to the site), or an exception out of api().           *)
TokenKeys == {"csrftoken", "watchtoken"}
TokenValues == 1..NumTokens
TokenAnswers(key) ==
  {Ok([query |-> [tokens |-> [k \in {key} |-> token]]]) : token \in TokenValues}
    \cup {Ok([query |-> [tokens |-> EmptyDict]]),
          [status |-> "APIError", errors |-> <<"readonly">>],
          Err("HTTPError")}

InitTokens == Construct({}) /\ MediaWiki_init

NextTokens == \E key \in TokenKeys : \E answer \in TokenAnswers(key) : TokenWallet_getitem(key, answer)

SpecTokens == InitTokens /\ [][NextTokens]_vars

(* The raw entities a site answers with: items without and with a         *)
(* statement, an entity marked missing, and items with a statement whose   *)
(* main snak has a snaktype or a value type nobody knows, or a qualifier   *)
(* of such a value type.                                                   *)
ItemId(n) == Str(<<"Q", n>>)
RawItem(n, statements) ==
  [type |-> "item", id |-> ItemId(n), labels |-> EmptyDict, descriptions |-> EmptyDict,
   aliases |-> EmptyDict,
   claims |-> IF statements = <<>> THEN PyDict(<<>>)
              ELSE PyDict(<<[key |-> "P31", value |-> PyList(statements)]>>)]
RawStatement(n, mainsnak, qualifiers) ==
  [type |-> "statement", id |-> Str(<<"Q", n, "$1">>), mainsnak |-> mainsnak,
   rank |-> Rank_NORMAL, qualifiers |-> qualifiers, references |-> PyList(<<>>)]
GoodSnak == PropertySnak_to_json(PropertyValueSnak_new(EntityId_new(TheSite, "P31"), Str(<<"eggs">>)))
UnknownSnaktype == [snaktype |-> "redacted", property |-> "P31"]
UnknownValueType ==
  [snaktype |-> "value", property |-> "P31",
   datavalue |-> [type |-> "musical-notation", value |-> Str(<<"eggs">>)]]
QualifierJson(snak) == PyDict(<<[key |-> "P31", value |-> PyList(<<snak>>)]>>)
WellFormedKinds == {"empty", "statement"}
MalformedKinds == {"missing", "snaktype", "value type", "qualifier value type"}
RawEntity(kind, n) ==
  CASE kind = "empty" -> RawItem(n, <<>>)
    [] kind = "statement" -> RawItem(n, <<RawStatement(n, GoodSnak, QualifierJson(GoodSnak))>>)
    [] kind = "missing" -> [id |-> ItemId(n), missing |-> ""]
    [] kind = "snaktype" -> RawItem(n, <<RawStatement(n, UnknownSnaktype, PyDict(<<>>))>>)
    [] kind = "value type" -> RawItem(n, <<RawStatement(n, UnknownValueType, PyDict(<<>>))>>)
    [] kind = "qualifier value type" ->
         RawItem(n, <<RawStatement(n, GoodSnak, QualifierJson(UnknownValueType))>>)
WellFormedEntities(n) == {RawEntity(kind, n) : kind \in WellFormedKinds}
MalformedEntities(n) == {RawEntity(kind, n) : kind \in MalformedKinds}
QueryResults ==
  UNION {{[i \in 1..n |-> RawEntity(kinds[i], i)] :
            kinds \in [1..n -> WellFormedKinds \cup MalformedKinds]} : n \in 0..MaxItems}

InitItems == Construct({}) /\ MediaWiki_init

NextItems == \E entities \in QueryResults : QueryService_get_items(entities)

SpecItems == InitItems /\ [][NextItems]_vars

(* ------------------- the text parts of one entity ---------------------- *)
(* Labels, descriptions and aliases of an entity whose server JSON has one *)
(* kind of text; a behaviour changes the labels, the descriptions or the   *)
(* aliases, whichever it changes first.                                    *)
EntitiesParts == EntitiesText \cup EntitiesAliases

InitParts == Construct(EntitiesParts) /\ Site_in_use

NextParts ==
  \/ /\ DOMAIN unsaved \subseteq {"labels"}
     /\ \/ \E key \in Langs, value \in Texts : Labels_setitem(key, value)
        \/ \E key \in Langs : Labels_delitem(key)
  \/ /\ DOMAIN unsaved \subseteq {"descriptions"}
     /\ \/ \E key \in Langs, value \in Texts : Descriptions_setitem(key, value)
        \/ \E key \in Langs : Descriptions_delitem(key)
  \/ /\ DOMAIN unsaved \subseteq {"aliases"}
     /\ \/ \E key \in Langs, value \in AliasTexts : AliasSet_add(key, value)
        \/ \E key \in Langs, value \in AliasTexts : AliasSet_discard(key, value)
        \/ \E key \in Langs : AliasSet_clear(key)
  \/ \E key \in Langs : Aliases_lookup(key)
  \/ Fetch(EntitiesParts)
  \/ Save(EntitiesParts)

SpecParts == InitParts /\ [][NextParts]_vars

(* ------------------- mutations that find nothing ----------------------- *)
(* Deletes, removes and discards on an entity, of keys and elements that   *)
(* are stored and of ones that are not.                                    *)
InitMutations == Construct(EntitiesAll) /\ Site_in_use

NextMutations ==
  \/ Labels_setitem(1, 1)
  \/ \E key \in Langs : Labels_delitem(key)
  \/ Descriptions_setitem(1, 1)
  \/ \E key \in Langs : Descriptions_delitem(key)
  \/ \E elem \in NewStatements : Claims_add(elem)
  \/ \E elem \in Live \cup NewStatements : Claims_remove(elem)
  \/ \E elem \in Live \cup NewStatements : Claims_discard(elem)
  \/ \E pos \in Positions, snak \in QualSnaks : Qualifiers_add(pos[1], pos[2], snak)
  \/ \E pos \in Positions, snak \in QualSnaks : Qualifiers_remove(pos[1], pos[2], snak)
  \/ \E pos \in Positions, snak \in QualSnaks : Qualifiers_discard(pos[1], pos[2], snak)
  \/ Fetch(EntitiesAll)

SpecMutations == InitMutations /\ [][NextMutations]_vars

(* ----------------- mutations and reads of one entity ------------------- *)
(* Every part of an entity is changed and read.  A part is changed while   *)
(* the other parts have no marker, so that each marker has one origin.     *)
Clean(part) == DOMAIN unsaved \subseteq {part}

NextFrame ==
  \/ Clean("labels") /\ Labels_setitem(1, 1)
  \/ Clean("labels") /\ \E key \in Langs : Labels_delitem(key)
  \/ Clean("descriptions") /\ Descriptions_setitem(1, 1)
  \/ Clean("descriptions") /\ \E key \in Langs : Descriptions_delitem(key)
  \/ \E key \in Langs : Aliases_lookup(key)
  \/ Clean("aliases") /\ \E key \in Langs : AliasSet_add(key, 1)
  \/ Clean("aliases") /\ AliasSet_discard(1, 1)
  \/ Clean("aliases") /\ AliasSet_clear(1)
  \/ Clean("claims") /\ \E elem \in {e \in NewStatements : e.obj = 1 /\ P(e) = QualProp} :
                          Claims_add(elem)
  \/ Clean("claims") /\ \E elem \in Live : Claims_remove(elem)
  \/ Clean("claims") /\ \E pos \in Positions, value \in Ranks :
                          Statement_set_rank(pos[1], pos[2], value)
  \/ Clean("claims") /\ \E pos \in Positions, snak \in QualSnaks :
                          Qualifiers_add(pos[1], pos[2], snak)
  \/ Clean("claims") /\ \E pos \in Positions, snak \in QualSnaks :
                          Qualifiers_remove(pos[1], pos[2], snak)
  \/ \E pos \in Positions, snak \in QualSnaks : Qualifiers_contains(pos[1], pos[2], snak)
  \/ \E pos \in Positions : Qualifiers_len(pos[1], pos[2])
  \/ \E pos \in Positions, p \in Props : Qualifiers_p_len(pos[1], pos[2], p)
  \/ \E p \in Props : Claims_p_len(p)
  \/ \E p \in Props : Claims_p_iter(p)
  \/ \E p \in Props, elem \in Live : Claims_p_contains(p, elem)
  \/ Item_claims_len(EntitiesAll)

SpecFrame == InitAll /\ [][NextFrame]_vars

(* ---------------- objects kept over a fetch or a save ------------------ *)
(* The caller takes one object of the entity, changes the entity through   *)
(* it, and fetches and saves in between.                                   *)
InitKept == Construct(EntitiesAll) /\ Site_in_use

NextKept ==
  \/ held.kind = "none" /\ Item_labels
  \/ held.kind = "none" /\ \E key \in Langs : Aliases_getitem_keep(key)
  \/ held.kind = "none" /\ \E pos \in Positions : Claims_iter_keep(pos[1], pos[2])
  \/ Kept_labels_setitem(1, 1)
  \/ \E value \in AliasTexts : Kept_aliases_add(value)
  \/ \E value \in AliasTexts : Kept_aliases_discard(value)
  \/ \E value \in Ranks : Kept_set_rank(value)
  \/ \E snak \in QualSnaks : Kept_qualifiers_add(snak)
  \/ Fetch(EntitiesAll)
  \/ Save(EntitiesAll)

SpecKept == InitKept /\ [][NextKept]_vars

(* ======================= properties of the model ======================= *)
(* The fragment of a part in the patch a save would send now (no entries   *)
(* when the part has no dirty marker and so no fragment).                  *)
Fragment(part) == IF part \in DOMAIN unsaved THEN Changes[part] ELSE <<>>
FragmentLangs(frag) == {frag[i].language : i \in 1..Len(frag)}
Count(frag, entry) == Cardinality({i \in 1..Len(frag) : frag[i] = entry})
DirtyIds == IF "claims" \in DOMAIN unsaved THEN KeySet(unsaved["claims"]) ELSE {}
RemoveEntry(i) == [id |-> i, remove |-> ""]
IsFull(entry) == "mainsnak" \in DOMAIN entry
FullIds(frag) == {frag[i].id : i \in {j \in 1..Len(frag) : IsFull(frag[j]) /\ "id" \in DOMAIN frag[j]}}
RemovedIds(frag) == {frag[i].id : i \in {j \in 1..Len(frag) : ~IsFull(frag[j])}}

(* One entry per language, and it tells the store's current state.         *)
TextFragmentIsFinalState(frag, store) ==
  \A i \in 1..Len(frag) :
    /\ \A j \in 1..Len(frag) : frag[j].language = frag[i].language => j = i
    /\ frag[i] = IF frag[i].language \in DOMAIN store
                 THEN [language |-> frag[i].language, value |-> store[frag[i].language]]
                 ELSE [language |-> frag[i].language, remove |-> ""]

(* A step adds to the fragment's languages exactly the language that a     *)
(* successful set or delete of this part was given.                        *)
TextFragmentGrowsByTouched(part) ==
  LET touched == IF last'.op \in {part \o ".set", part \o ".del"} /\ last'.status = "ok"
                 THEN {last'.arg} ELSE {}
  IN FragmentLangs(Fragment(part))' = FragmentLangs(Fragment(part)) \cup touched

(* C1: over any sequence of label (description) set and delete calls made  *)
(* on an entity since it was constructed, the labels (descriptions)        *)
(* fragment of the next save has exactly one entry per language touched:   *)
(* {language, value: current value} when the language is in the store,     *)
(* {language, remove: ""} when it is not.                                  *)
C1_TextFragmentIsFinalState ==
  /\ [](/\ TextFragmentIsFinalState(Fragment("labels"), labels)
        /\ TextFragmentIsFinalState(Fragment("descriptions"), descriptions))
  /\ [][/\ TextFragmentGrowsByTouched("labels")
        /\ TextFragmentGrowsByTouched("descriptions")]_vars

(* a label that the server did not have was set and then deleted, and the  *)
(* fragment carries its remove next to the value of another language       *)
C1_Witness ==
  /\ id # None
  /\ last.op = "labels.del" /\ last.status = "ok"
  /\ last.arg \notin DOMAIN data[1].labels
  /\ Count(Fragment("labels"), [language |-> last.arg, remove |-> ""]) = 1
  /\ \E i \in 1..Len(Fragment("labels")) : "value" \in DOMAIN Fragment("labels")[i]

(* C2: the claims fragment holds every live statement without id in full,  *)
(* a live statement with an id in full iff its id is a dirty marker under  *)
(* claims, {id, remove: ""} once for every dirty id that no live statement *)
(* has, and nothing else.                                                  *)
C2_ClaimsFragment ==
  "claims" \in DOMAIN unsaved =>
    LET frag == Fragment("claims")
        emitted == {i \in 1..Len(LiveSeq) : LiveSeq[i].id = NoId \/ LiveSeq[i].id \in DirtyIds}
        gone == DirtyIds \ {LiveSeq[i].id : i \in 1..Len(LiveSeq)}
    IN /\ \A i \in emitted :
            Count(frag, Statement_to_json(LiveSeq[i]))
              = Cardinality({j \in emitted :
                               Statement_to_json(LiveSeq[j]) = Statement_to_json(LiveSeq[i])})
       /\ \A i \in (1..Len(LiveSeq)) \ emitted :
            /\ Count(frag, Statement_to_json(LiveSeq[i])) = 0
            /\ LiveSeq[i].id \notin FullIds(frag) \cup RemovedIds(frag)
       /\ \A i \in gone : Count(frag, RemoveEntry(i)) = 1
       /\ Len(frag) = Cardinality(emitted) + Cardinality(gone)

(* a fragment with a new statement, a changed statement and a removed one  *)
C2_Witness ==
  LET frag == Fragment("claims")
  IN /\ \E i \in 1..Len(frag) : IsFull(frag[i]) /\ "id" \notin DOMAIN frag[i]
     /\ FullIds(frag) # {}
     /\ RemovedIds(frag) # {}

(* C3: removing a statement that has an id leaves exactly one              *)
(* {id, remove: ""} entry for it in the claims fragment of the next save   *)
(* (and no full entry); removing a statement without id adds no dirty      *)
(* marker and no remove entry.                                             *)
C3_RemoveSchedulesOneRemove ==
  [][(last'.op = "claims.remove" /\ last'.status = "ok") =>
       \A removed \in Live \ Live' :
         IF removed.id # NoId
         THEN /\ removed.id \in DirtyIds'
              /\ Count(Fragment("claims"), RemoveEntry(removed.id))' = 1
              /\ removed.id \notin FullIds(Fragment("claims"))'
         ELSE /\ unsaved' = unsaved
              /\ RemovedIds(Fragment("claims"))' = RemovedIds(Fragment("claims"))]_vars

(* a loaded statement has just been removed and its remove is scheduled    *)
C3_Witness ==
  /\ last.op = "claims.remove" /\ last.status = "ok"
  /\ \E i \in DirtyIds :
       /\ i \notin {LiveSeq[k].id : k \in 1..Len(LiveSeq)}
       /\ Count(Fragment("claims"), RemoveEntry(i)) = 1

Parts == {"labels", "descriptions", "aliases", "claims"}
NoEntries(patch) == \A part \in DOMAIN patch : patch[part] = <<>>

(* C4: a successful save clears the dirty markers: a second save with no   *)
(* mutation in between sends a patch without any label, description,       *)
(* alias or claim entry.                                                   *)
C4_SecondSaveSendsNothing ==
  [][(last.op = "save" /\ last.status = "ok" /\ last'.op = "save")
       => NoEntries(last'.sent)]_vars

(* C5: a successful fetch discards the dirty markers: a save that follows  *)
(* a fetch with no mutation in between sends a patch without entries.      *)
C5_FetchDiscardsDirtyMarkers ==
  [][(last.op = "fetch" /\ last.status = "ok" /\ last'.op = "save")
       => NoEntries(last'.sent)]_vars

(* The parts hold exactly what the entity JSON holds.                      *)
PartsEqualJson(json) ==
  /\ DOMAIN labels = DOMAIN json.labels
  /\ \A l \in DOMAIN labels : labels[l] = json.labels[l].value
  /\ DOMAIN descriptions = DOMAIN json.descriptions
  /\ \A l \in DOMAIN descriptions : descriptions[l] = json.descriptions[l].value
  /\ DOMAIN aliases = DOMAIN json.aliases
  /\ \A l \in DOMAIN aliases :
        aliases[l] = {json.aliases[l][i].value : i \in 1..Len(json.aliases[l])}
  /\ LET statements == ChainValues(json.claims)
     IN /\ Len(LiveSeq) = Len(statements)
        /\ \A i \in 1..Len(LiveSeq) :
             LET quals == SnakSet_iter(LiveSeq[i].qualifiers)
                 jquals == ChainValues(statements[i].qualifiers)
             IN /\ LiveSeq[i].id = statements[i].id
                /\ LiveSeq[i].mainsnak.p = statements[i].mainsnak.property
                /\ LiveSeq[i].mainsnak.value = statements[i].mainsnak.datavalue.value
                /\ LiveSeq[i].rank = statements[i].rank
                /\ Len(quals) = Len(jquals)
                /\ \A q \in 1..Len(quals) :
                     /\ quals[q].p = jquals[q].property
                     /\ quals[q].value = jquals[q].datavalue.value

(* C6: after a successful fetch or save the labels, descriptions, aliases  *)
(* and claims equal the content of the entity JSON the server returned in  *)
(* that call, whatever was changed locally before.                         *)
C6_PartsReplacedByServerJson ==
  (last.op \in {"fetch", "save"} /\ last.status = "ok") => PartsEqualJson(data[1])

(* a save that followed local changes to all four parts                    *)
C6_Witness ==
  /\ last.op = "save" /\ last.status = "ok"
  /\ \A part \in Parts : part \in DOMAIN last.sent /\ last.sent[part] # <<>>
  /\ DOMAIN labels = {} /\ DOMAIN aliases = {}

(* C7: a successful save of an entity without id adopts the id of the      *)
(* entity JSON the server returned.                                        *)
C7_SaveAdoptsServerId ==
  [][(id = None /\ last'.op = "save" /\ last'.status = "ok") => id' = data'[1].id]_vars

(* C8: a save whose edit request fails with an API error leaves the parts, *)
(* the snapshot and the dirty markers as they were before the call, so     *)
(* that a retried save sends the same patch.                               *)
C8_FailedSaveChangesNothing ==
  [][(last'.op = "save" /\ last'.status = "APIError")
       => /\ UNCHANGED <<labels, descriptions, aliases, claims, data, unsaved>>
          /\ Changes' = last'.sent]_vars

(* C9: a fetch that the server answers with "missing" raises               *)
(* EntityMissingError and changes neither the parts nor the snapshot nor   *)
(* the dirty markers.                                                      *)
C9_MissingFetchChangesNothing ==
  [][(last'.op = "fetch" /\ last'.status = "EntityMissingError")
       => UNCHANGED <<held, id, data, labels, descriptions, aliases, claims, unsaved>>]_vars

(* a missing answer to the fetch of an entity with unsaved local changes   *)
C9_Witness ==
  /\ last.op = "fetch" /\ last.status = "EntityMissingError"
  /\ DOMAIN unsaved = Parts
  /\ ~PartsEqualJson(data[1])

(* C10: adding or removing a qualifier of a statement that has an id       *)
(* records a dirty marker for that id: the claims fragment of the next     *)
(* save holds the statement in full with its current qualifiers, and the   *)
(* step adds an entry for no other statement id.                           *)
C10_QualifierChangeMarksStatement ==
  [][(last'.op \in {"qualifiers.add", "qualifiers.remove"} /\ last'.status = "ok") =>
       \A pos \in Positions :
         LET before == claims[pos[1]].group[pos[2]]
             after == claims'[pos[1]].group[pos[2]]
             quals == SnakSet_iter(after.qualifiers)
         IN (before.id # NoId /\ quals # SnakSet_iter(before.qualifiers)) =>
              /\ before.id \in DirtyIds'
              /\ Cardinality({i \in 1..Len(Fragment("claims")') :
                                /\ IsFull(Fragment("claims")'[i])
                                /\ "id" \in DOMAIN Fragment("claims")'[i]
                                /\ Fragment("claims")'[i].id = before.id
                                /\ Fragment("claims")'[i].qualifiers =
                                     [q \in 1..Len(quals) |-> SnakJson(quals[q].p, quals[q].value)]})
                   = 1
              /\ (FullIds(Fragment("claims")) \cup RemovedIds(Fragment("claims")))'
                   = FullIds(Fragment("claims")) \cup RemovedIds(Fragment("claims"))
                       \cup {before.id}]_vars

(* a qualifier was added to one loaded statement; the fragment holds it    *)
(* with the qualifier and has no entry for the other loaded statement      *)
C10_Witness ==
  /\ last.op = "qualifiers.add" /\ last.status = "ok"
  /\ \E i, j \in 1..Len(LiveSeq) :
       /\ LiveSeq[i].id # NoId /\ LiveSeq[j].id # NoId
       /\ SnakSet_iter(LiveSeq[i].qualifiers) # <<>>
       /\ \E n \in 1..Len(ChainValues(data[1].claims)) :
            /\ ChainValues(data[1].claims)[n].id = LiveSeq[i].id
            /\ ChainValues(data[1].claims)[n].qualifiers = <<>>
       /\ Count(Fragment("claims"), Statement_to_json(LiveSeq[i])) = 1
       /\ LiveSeq[j].id \notin FullIds(Fragment("claims")) \cup RemovedIds(Fragment("claims"))

(* C11: a statement built without a rank has rank NORMAL; setting the rank *)
(* of a loaded statement (it has an id) records the dirty marker           *)
(* claims/id, records no other dirty marker and leaves the qualifiers and  *)
(* references of every statement as they were.                             *)
C11_RankSetMarksStatement ==
  /\ [][(last'.op = "claims.add" /\ last'.status = "ok") =>
          \A added \in Live' \ Live : added.rank = Rank_NORMAL]_vars
  /\ [][(last'.op = "rank.set" /\ last'.arg # NoId) =>
          /\ DirtyIds' = DirtyIds \cup {last'.arg}
          /\ DOMAIN unsaved' = DOMAIN unsaved \cup {"claims"}
          /\ \A part \in DOMAIN unsaved \ {"claims"} : unsaved'[part] = unsaved[part]
          /\ \A n \in 1..Len(unsaved'["claims"]) : unsaved'["claims"][n].sub = <<>>
          /\ Len(LiveSeq') = Len(LiveSeq)
          /\ \A n \in 1..Len(LiveSeq) :
               /\ LiveSeq'[n].qualifiers = LiveSeq[n].qualifiers
               /\ LiveSeq'[n].references = LiveSeq[n].references
               /\ LiveSeq'[n].id = LiveSeq[n].id
               /\ LiveSeq[n].id # last'.arg => LiveSeq'[n].rank = LiveSeq[n].rank]_vars

(* the rank of one of two loaded statements was raised: the fragment of    *)
(* the next save holds that statement alone, with its new rank             *)
C11_Witness ==
  /\ last.op = "rank.set" /\ last.arg # NoId
  /\ DirtyIds = {last.arg}
  /\ \E i, j \in 1..Len(LiveSeq) :
       /\ LiveSeq[i].id = last.arg /\ LiveSeq[i].rank = "preferred"
       /\ LiveSeq[j].id \notin {NoId, last.arg}
       /\ Fragment("claims") = <<Statement_to_json(LiveSeq[i])>>

(* the (language, alias) pairs that have an entry in an aliases fragment   *)
AliasPairs(frag) == {<<frag[i].language, frag[i].value>> : i \in 1..Len(frag)}
AliasesOf(store, lang) == IF lang \in DOMAIN store THEN store[lang] ELSE {}

(* One entry per (language, alias), and it tells whether the alias is in   *)
(* the language's set now.                                                 *)
AliasFragmentIsFinalState(frag, store) ==
  \A i \in 1..Len(frag) :
    /\ \A j \in 1..Len(frag) :
         (frag[j].language = frag[i].language /\ frag[j].value = frag[i].value) => j = i
    /\ frag[i] = IF frag[i].value \in AliasesOf(store, frag[i].language)
                 THEN [language |-> frag[i].language, value |-> frag[i].value]
                 ELSE [language |-> frag[i].language, value |-> frag[i].value, remove |-> ""]

(* the pairs a call touched: the pair given to add or discard, every alias *)
(* of the language's set for clear                                         *)
AliasPairsTouched ==
  CASE last'.op \in {"aliases.add", "aliases.discard"} -> {last'.arg}
    [] last'.op = "aliases.clear" -> {<<last'.arg, alias>> : alias \in AliasesOf(aliases, last'.arg)}
    [] OTHER -> {}

(* The aliases the server holds after it applied an aliases fragment to    *)
(* the aliases of the snapshot.                                            *)
SnapshotAliases(lang) ==
  IF data = NoData THEN {}
  ELSE IF lang \in DOMAIN data[1].aliases
       THEN {data[1].aliases[lang][i].value : i \in 1..Len(data[1].aliases[lang])}
       ELSE {}
AliasesApplied(frag, lang) ==
  (SnapshotAliases(lang)
     \ {frag[i].value : i \in {j \in 1..Len(frag) :
                                  frag[j].language = lang /\ "remove" \in DOMAIN frag[j]}})
  \cup {frag[i].value : i \in {j \in 1..Len(frag) :
                                  frag[j].language = lang /\ "remove" \notin DOMAIN frag[j]}}
ServerAppliedAliases ==
  /\ last'.op = "save" /\ last'.status = "ok"
  /\ \A lang \in Langs :
       AliasesOf(aliases', lang) =
         AliasesApplied(IF "aliases" \in DOMAIN last'.sent THEN last'.sent["aliases"] ELSE <<>>,
                        lang)

(* C12: over any sequence of add, discard and clear calls made on the      *)
(* alias sets of an entity since it was constructed, the aliases fragment  *)
(* of the next save has exactly one entry per (language, alias) pair       *)
(* touched: {language, value} when the alias is in the set, {language,     *)
(* value, remove: ""} when it is not; and when the server applies the      *)
(* patch of the save that follows, an alias just added is in the set and   *)
(* a set just cleared is empty.                                            *)
C12_AliasFragmentIsFinalState ==
  /\ [](AliasFragmentIsFinalState(Fragment("aliases"), aliases))
  /\ [][AliasPairs(Fragment("aliases"))' = AliasPairs(Fragment("aliases")) \cup AliasPairsTouched]_vars
  /\ [][(last.op = "aliases.add" /\ ServerAppliedAliases)
          => last.arg[2] \in AliasesOf(aliases', last.arg[1])]_vars
  /\ [][(last.op = "aliases.clear" /\ ServerAppliedAliases)
          => AliasesOf(aliases', last.arg) = {}]_vars

(* a set with an alias of the server was cleared, an alias was added to    *)
(* the set of another language, and the fragment removes the one and adds  *)
(* the other                                                               *)
C12_Witness ==
  /\ last.op = "aliases.clear"
  /\ SnapshotAliases(last.arg) # {}
  /\ \A alias \in SnapshotAliases(last.arg) :
       Count(Fragment("aliases"), [language |-> last.arg, value |-> alias, remove |-> ""]) = 1
  /\ \E i \in 1..Len(Fragment("aliases")) :
       /\ "remove" \notin DOMAIN Fragment("aliases")[i]
       /\ Fragment("aliases")[i].language # last.arg

PartsEmpty ==
  /\ labels = EmptyDict /\ descriptions = EmptyDict
  /\ \A lang \in DOMAIN aliases : aliases[lang] = {}
  /\ LiveSeq = <<>>

(* C13: when the with-block of an Edit is left through an error, no edit   *)
(* request is sent, the error reaches the caller and the parts equal the   *)
(* last-fetched snapshot again: the snapshot's content for an entity that  *)
(* was fetched, no content for an entity that never was.                   *)
C13_FailedEditRollsBack ==
  [][(last'.op = "edit.exit" /\ last'.status = "Exception") =>
       /\ last'.requests = <<>>
       /\ IF data = NoData THEN PartsEmpty' ELSE PartsEqualJson(data[1])']_vars

(* C14: when the with-block of an Edit is left normally, one edit request  *)
(* is sent with the Edit's summary, its patch holds the mutation made in   *)
(* the block just before (a label or description set or deleted, an alias  *)
(* added, a statement added), and afterwards the parts equal the entity    *)
(* the server returned.                                                    *)
C14_EditSendsItsMutations ==
  [][(last'.op = "edit.exit" /\ last'.status = "ok") =>
       /\ last'.requests = <<"wbeditentity">>
       /\ last'.summary = edit[1].summary
       /\ PartsEqualJson(data[1])'
       /\ (last.op \in {"labels.set", "labels.del"} /\ last.status = "ok") =>
            last.arg \in FragmentLangs(last'.sent["labels"])
       /\ (last.op = "descriptions.set") =>
            last.arg \in FragmentLangs(last'.sent["descriptions"])
       /\ (last.op = "aliases.add") => last.arg \in AliasPairs(last'.sent["aliases"])
       /\ (last.op = "claims.add") =>
            \E i \in 1..Len(last'.sent["claims"]) :
               IsFull(last'.sent["claims"][i]) /\ "id" \notin DOMAIN last'.sent["claims"][i]]_vars

(* C15: entering a ChangeContext of an entity raises NoCurrentEditError    *)
(* exactly when the caller is in no with-block of an Edit on the entity;   *)
(* inside one it returns normally and its path is marked in the Edit's     *)
(* changes.                                                                *)
C15_ChangeContextNeedsEdit ==
  [][(last'.op = "changecontext") =>
       /\ (last'.status = "NoCurrentEditError") <=> (edit = NoEdit)
       /\ edit # NoEdit => /\ edit' # NoEdit
                            /\ "labels" \in DOMAIN edit'[1].changes]_vars

(* C16: an entity constructed with an id fetches during construction; an  *)
(* entity constructed without one issues no get-entity request before its  *)
(* first save, whatever is read or changed on its labels, descriptions,    *)
(* aliases and claims.                                                     *)
C16_UnboundEntityIsLocal ==
  /\ (id # None) => (last.requests = <<"wbgetentities">> /\ data # NoData)
  /\ (id = None) => (last.requests = <<>> /\ data = NoData)
  /\ [][(id = None /\ data = NoData /\ last'.op # "save") => last'.requests = <<>>]_vars

(* the snaks a qualifiers container yields, and whether it holds a snak    *)
(* equal to a given one                                                    *)
Yields(statement) == SnakSet_iter(statement.qualifiers)
Holds(statement, snak) == \E i \in 1..Len(Yields(statement)) : Yields(statement)[i] = snak
SnaksOf(statement, p) == SelectSeq(Yields(statement), LAMBDA snak : snak.p = p)
MarkerOf(tree, key) == {tree[n].sub : n \in {m \in 1..Len(tree) : tree[m].key = key}}

(* C17: SnakSet.add is idempotent under value equality.  Adding a snak     *)
(* equal to a stored one leaves the length and the iteration order as they *)
(* were and notifies nobody; adding a snak with no equal element appends   *)
(* it to the snaks of its property and notifies once, without sub-key (for *)
(* the qualifiers of a loaded statement: the marker claims/id, with        *)
(* nothing below it).                                                      *)
C17_AddIsIdempotent ==
  [][(last'.op = "qualifiers.add") =>
       LET before == LiveSeq[1]
           after == LiveSeq'[1]
           snak == last'.arg
       IN IF Holds(before, snak)
          THEN /\ Yields(after) = Yields(before)
               /\ unsaved' = unsaved
          ELSE /\ Len(Yields(after)) = Len(Yields(before)) + 1
               /\ SnaksOf(after, snak.p) = Append(SnaksOf(before, snak.p), snak)
               /\ \A p \in SnakProps \ {snak.p} : SnaksOf(after, p) = SnaksOf(before, p)
               /\ IF before.id # NoId
                  THEN /\ DirtyIds' = DirtyIds \cup {before.id}
                       /\ MarkerOf(unsaved'["claims"], before.id) = {<<>>}
                  ELSE unsaved' = unsaved]_vars

(* a snak the loaded statement already had was added again, after a        *)
(* second snak of the same property: nothing is marked dirty               *)
C17_Witness ==
  /\ last.op = "qualifiers.add"
  /\ LiveSeq # <<>>
  /\ LiveSeq[1].id # NoId
  /\ Holds(LiveSeq[1], last.arg)
  /\ Len(SnaksOf(LiveSeq[1], last.arg.p)) = 2
  /\ unsaved = EmptyDict

NoEqualSnaks(store) ==
  \A g \in 1..Len(store) :
    \A i, j \in 1..Len(store[g].group) : store[g].group[i] = store[g].group[j] => i = j
StatementValue(statement) ==
  [mainsnak |-> statement.mainsnak, rank |-> statement.rank, qualifiers |-> Yields(statement)]

(* C18: no container holds two elements under one property that are equal *)
(* by value: neither the qualifiers of a statement two equal snaks nor the *)
(* claims two statements of equal value, however they were populated.      *)
C18_NoEqualElements ==
  /\ \A n \in 1..Len(LiveSeq) : NoEqualSnaks(LiveSeq[n].qualifiers)
  /\ \A g \in 1..Len(claims) :
       \A i, j \in 1..Len(claims[g].group) :
         StatementValue(claims[g].group[i]) = StatementValue(claims[g].group[j]) => i = j

(* C19: iterating a SnakSet yields every stored snak once, the snaks of a  *)
(* property together and in insertion order, the properties in the order   *)
(* in which each first got a snak: a snak added to a property that has     *)
(* snaks comes last among them, a snak added to a property without snaks   *)
(* comes last of all; and a membership test, a length query or a view on   *)
(* the container changes nothing of what is yielded later.                 *)
C19_IterationOrder ==
  [][(LiveSeq # <<>> /\ LiveSeq' # <<>>) =>
       LET before == LiveSeq[1]
           after == LiveSeq'[1]
           snak == last'.arg
       IN /\ (last'.op \in {"qualifiers.contains", "qualifiers.len", "qualifiers.p.len"})
               => Yields(after) = Yields(before)
          /\ (last'.op = "qualifiers.add" /\ ~Holds(before, snak)) =>
               IF SnaksOf(before, snak.p) = <<>>
               THEN Yields(after) = Append(Yields(before), snak)
               ELSE \E n \in 1..Len(Yields(before)) :
                      /\ Yields(before)[n].p = snak.p
                      /\ \A m \in (n + 1)..Len(Yields(before)) : Yields(before)[m].p # snak.p
                      /\ Yields(after) = SubSeq(Yields(before), 1, n) \o <<snak>>
                                           \o SubSeq(Yields(before), n + 1, Len(Yields(before)))]_vars

(* C20: the view claims.p(p) is live and exact: whenever it is used, its   *)
(* length is the number of statements stored under p now, its iteration    *)
(* yields those statements in order, and its membership test tells whether *)
(* a statement is among them; for a property without statements the length *)
(* is 0 and nothing is yielded.                                            *)
C20_ViewIsLive ==
  [][LET stored == SelectSeq(LiveSeq, LAMBDA statement : P(statement) = last'.arg)
     IN /\ (last'.op = "claims.p.len") => (last'.status = "ok" /\ last'.result = Len(stored))
        /\ (last'.op = "claims.p.iter") => (last'.status = "ok" /\ last'.result = stored)
        /\ (last'.op = "claims.p.contains") => last'.status = "ok"]_vars


(* C21: for every constructible value of each value type (entity id,       *)
(* monolingual text, globe coordinate, quantity with any upper and lower   *)
(* bound, bare string), parsing the JSON produced by serializing the value *)
(* yields a value equal to it; for a Time the date, the precision and the  *)
(* calendar model are the same after the round trip.                       *)
C21_ValueRoundTrip ==
  last.op = "value.roundtrip"
    => /\ last.result.status = "ok"
       /\ IF last.arg.py = "Time"
          THEN /\ last.result.value.time.sign = last.arg.time.sign
               /\ last.result.value.time.date = last.arg.time.date
               /\ last.result.value.precision = last.arg.precision
               /\ last.result.value.calendar_model = last.arg.calendar_model
          ELSE last.result.value = last.arg


(* C22: for every snak of each kind (value, no-value, some-value),         *)
(* PropertySnak.from_json applied to its to_json yields a snak equal to    *)
(* it, and two snaks of different kinds or of different properties are     *)
(* never equal.                                                            *)
C22_SnakRoundTrip ==
  /\ last.op = "snak.roundtrip"
       => /\ last.result.status = "ok"
          /\ PropertySnak_eq(last.result.value, last.arg)
  /\ (last.op = "snak.eq" /\ (last.arg[1].kind # last.arg[2].kind \/ last.arg[1].p # last.arg[2].p))
       => ~last.result


(* a snak container on the wire: a mapping from property id to the list of *)
(* the JSON of the snaks of that property                                  *)
IsSnakMapping(json) ==
  IF json.py # "dict" THEN FALSE
  ELSE \A i \in 1..Len(json.entries) :
         IF json.entries[i].value.py # "list" THEN FALSE
         ELSE \A k \in 1..Len(json.entries[i].value.items) :
                json.entries[i].value.items[k].property = json.entries[i].key

(* C23: Statement.to_json produces the statement wire shape, the           *)
(* qualifiers as a mapping from property id to the list of snak JSON of    *)
(* that property and the snaks of each reference record as such a mapping, *)
(* so that Statement.from_json accepts the output and rebuilds the same    *)
(* mainsnak, rank, qualifiers and references.                              *)
C23_StatementWireShape ==
  last.op = "statement.roundtrip"
    => /\ IsSnakMapping(last.result.json.qualifiers)
       /\ \A i \in 1..Len(last.result.json.references.items) :
            IsSnakMapping(last.result.json.references.items[i].snaks)
       /\ last.result.parsed.status = "ok"
       /\ last.result.parsed.value.mainsnak = last.arg.mainsnak
       /\ last.result.parsed.value.rank = last.arg.rank
       /\ last.result.parsed.value.qualifiers = last.arg.qualifiers
       /\ last.result.parsed.value.references = last.arg.references


(* the list an argument of site.claim stands for: none for None            *)
ArgList(arg) == IF arg = <<>> THEN <<>> ELSE arg[1]
(* two sequences hold the same elements, each as often                     *)
SameElements(a, b) ==
  \A x \in {a[i] : i \in 1..Len(a)} \cup {b[i] : i \in 1..Len(b)} :
    Cardinality({i \in 1..Len(a) : a[i] = x}) = Cardinality({i \in 1..Len(b) : b[i] = x})

(* C30: a statement constructed with a list of qualifiers q and a list of  *)
(* reference records r holds exactly the snaks of q as its qualifiers and  *)
(* exactly the records of r, in order, as its references, and its emitted  *)
(* JSON contains them; the references never come from the qualifiers       *)
(* argument.                                                               *)
C30_QualifiersAndReferencesKept ==
  last.op = "claim"
    => /\ last.result.status = "ok"
       /\ SameElements(SnakSet_iter(last.result.value.qualifiers), ArgList(last.arg.qualifiers))
       /\ last.result.value.references = ArgList(last.arg.references)
       /\ last.result.json.qualifiers.items
            = [i \in 1..Len(SnakSet_iter(last.result.value.qualifiers)) |->
                 PropertySnak_to_json(SnakSet_iter(last.result.value.qualifiers)[i])]
       /\ last.result.json.references.items
            = [i \in 1..Len(ArgList(last.arg.references)) |->
                 ReferenceRecord_to_json(ArgList(last.arg.references)[i])]


(* The outcomes received by the call in progress or just made, by their    *)
(* position in the log.                                                    *)
GotAt == IF http = NoCall THEN {} ELSE {i \in 1..Len(http.log) : http.log[i].ev = "got"}
OutcomeAt(i) == http.log[i].outcome
IsResponse(o) == o.kind = "response"
Is5xx(o) == IsResponse(o) /\ 500 <= o.status_code /\ o.status_code <= 599
Is4xx(o) == IsResponse(o) /\ 400 <= o.status_code /\ o.status_code <= 499
HasRetryAfter(o) == IsResponse(o) /\ o.retry_after # <<>>
HasApiError(o) == IsResponse(o) /\ o.api_error
(* after the outcome at i the call slept as `sleeps` tells and posted the  *)
(* identical request again                                                 *)
RetriedAfter(i, sleeps) ==
  /\ Len(http.log) >= i + Len(sleeps) + 1
  /\ SubSeq(http.log, i + 1, i + Len(sleeps)) = sleeps
  /\ http.log[i + Len(sleeps) + 1] = Post(http.log[1].request)
(* the outcome at i was answered with another POST of the identical        *)
(* request, whatever the sleep between them, and not passed to the caller  *)
PostedAgainAfter(i) ==
  \E j \in (i + 1)..Len(http.log) :
    /\ http.log[j] = Post(http.log[1].request)
    /\ \A k \in (i + 1)..(j - 1) : http.log[k].ev = "sleep"
(* the outcome at i ended the call: nothing was posted after it            *)
EndedAt(i) == i = Len(http.log) /\ http.pc = "done"

C25_BackoffBeforeRetry ==
  \A i \in GotAt :
    (~IsResponse(OutcomeAt(i)) \/ Is5xx(OutcomeAt(i))) => RetriedAfter(i, <<Sleep(60)>>)

(* C26: when a response carries a Retry-After signal, the call sleeps      *)
(* exactly the number of seconds the server specified and then posts the   *)
(* identical request again, without returning or raising.                  *)
C26_RetryAfterObeyed ==
  \A i \in GotAt :
    HasRetryAfter(OutcomeAt(i)) => RetriedAfter(i, <<Sleep(OutcomeAt(i).retry_after[1])>>)

(* C26 as amended: the response that carries the signal has a status below *)
(* 400 (a 5xx is retried after the fixed backoff, a 4xx raises).           *)
C26_RetryAfterObeyedAmended ==
  \A i \in GotAt :
    (HasRetryAfter(OutcomeAt(i)) /\ OutcomeAt(i).status_code < 400)
      => RetriedAfter(i, <<Sleep(OutcomeAt(i).retry_after[1])>>)

(* two responses asked for different delays, and each was slept in full    *)
C26_Witness ==
  \E i \in GotAt, j \in GotAt :
    /\ HasRetryAfter(OutcomeAt(i)) /\ OutcomeAt(i).status_code < 400
    /\ HasRetryAfter(OutcomeAt(j)) /\ OutcomeAt(j).status_code < 400
    /\ OutcomeAt(i).retry_after # OutcomeAt(j).retry_after
    /\ RetriedAfter(i, <<Sleep(OutcomeAt(i).retry_after[1])>>)
    /\ RetriedAfter(j, <<Sleep(OutcomeAt(j).retry_after[1])>>)

(* C27: when the server's response reports API errors, the API call raises *)
(* APIError carrying the raw error list and sends no further request for   *)
(* that call.                                                              *)
C27_ApiErrorRaised ==
  \A i \in GotAt :
    HasApiError(OutcomeAt(i))
      => /\ EndedAt(i)
         /\ http.result = [status |-> "APIError", errors |-> OutcomeAt(i).body.errors]

(* C27 as amended: the response has a status below 400 and carries no      *)
(* Retry-After signal (the response to a lagging request reports the API   *)
(* error maxlag, and is retried).                                          *)
C27_ApiErrorRaisedAmended ==
  \A i \in GotAt :
    (HasApiError(OutcomeAt(i)) /\ OutcomeAt(i).status_code < 400 /\ ~HasRetryAfter(OutcomeAt(i)))
      => /\ EndedAt(i)
         /\ http.result = [status |-> "APIError", errors |-> OutcomeAt(i).body.errors]

(* a call raised APIError on the answer to its second POST                 *)
C27_Witness ==
  /\ http # NoCall
  /\ http.pc = "done"
  /\ http.result.status = "APIError"
  /\ http.result.errors # <<>>
  /\ Attempts = 2

(* C28: for each token kind, the first lookup on the site issues exactly   *)
(* one token request, and every later lookup of that kind issues none and  *)
(* returns the cached token, which is the same token every time.           *)
SameKeyBefore(i) == {j \in 1..(i - 1) : lookups[j].key = lookups[i].key}
C28_TokenFetchedOnce ==
  \A i \in 1..Len(lookups) :
    IF SameKeyBefore(i) = {}
    THEN Len(lookups[i].requests) = 1
    ELSE /\ lookups[i].requests = <<>>
         /\ lookups[i].result.status = "ok"
         /\ \A j \in SameKeyBefore(i) :
              lookups[j].result.status = "ok" => lookups[i].result = lookups[j].result

(* C28 amended: every lookup of a kind up to and including the first that  *)
(* obtains a token issues exactly one token request; every later lookup of *)
(* that kind issues none and returns that same token, which the wallet     *)
(* still holds unchanged.                                                  *)
ObtainedBefore(i) == {j \in SameKeyBefore(i) : lookups[j].result.status = "ok"}
C28_TokenFetchedOnceAmended ==
  \A i \in 1..Len(lookups) :
    /\ IF ObtainedBefore(i) = {}
       THEN lookups[i].requests = <<TokenRequest(lookups[i].key)>>
       ELSE /\ lookups[i].requests = <<>>
            /\ \A j \in ObtainedBefore(i) : lookups[i].result = lookups[j].result
    /\ lookups[i].result.status = "ok" =>
         /\ lookups[i].key \in DOMAIN tokens
         /\ tokens[lookups[i].key] = lookups[i].result.value

(* a lookup that raised, then one that obtained the token, then one that   *)
(* was served from the wallet                                              *)
C28_Witness ==
  /\ Len(lookups) = 3
  /\ \A i \in 1..3 : lookups[i].key = "csrftoken"
  /\ lookups[1].result.status = "APIError"
  /\ lookups[2].result.status = "ok" /\ Len(lookups[2].requests) = 1
  /\ lookups[3].result.status = "ok" /\ lookups[3].requests = <<>>

(* C29: in batch resolution every malformed entity record (marked missing, *)
(* or with a snak of an unrecognized snaktype, or with a datavalue of an   *)
(* unrecognized type) is skipped, and every well-formed entity of the same *)
(* batch and of later batches is still yielded.                            *)
YieldedIds(iteration) == {iteration.yielded[k].id : k \in 1..Len(iteration.yielded)}
C29_MalformedEntitiesSkipped ==
  last.op = "get_items" =>
    \A i \in 1..Len(last.arg) :
      /\ last.arg[i] \in MalformedEntities(i) => ItemId(i) \notin YieldedIds(last.result)
      /\ last.arg[i] \in WellFormedEntities(i) => ItemId(i) \in YieldedIds(last.result)

(* The texts of a part in the last server snapshot (none for an entity     *)
(* that has no snapshot), and the texts the server holds after it applied  *)
(* a labels or descriptions fragment to them.                              *)
SnapshotTexts(part) ==
  IF data = NoData THEN EmptyDict
  ELSE [lang \in DOMAIN data[1][part] |-> data[1][part][lang].value]
TextsApplied(frag, part) ==
  LET removed == {frag[i].language : i \in {j \in 1..Len(frag) : "remove" \in DOMAIN frag[j]}}
      written == {frag[i].language : i \in {j \in 1..Len(frag) : "value" \in DOMAIN frag[j]}}
      snapshot == SnapshotTexts(part)
  IN [lang \in ((DOMAIN snapshot) \ removed) \cup written |->
        IF lang \in written
        THEN (CHOOSE e \in {frag[i] : i \in 1..Len(frag)} :
                e.language = lang /\ "value" \in DOMAIN e).value
        ELSE snapshot[lang]]
TextDirty(part, lang) == part \in DOMAIN unsaved /\ HasKey(unsaved[part], lang)
AliasDirty(lang, alias) ==
  /\ "aliases" \in DOMAIN unsaved
  /\ \E i \in 1..Len(unsaved["aliases"]) :
       unsaved["aliases"][i].key = lang /\ HasKey(unsaved["aliases"][i].sub, alias)
TextDiffers(store, part, lang) ==
  \/ (lang \in DOMAIN store) # (lang \in DOMAIN SnapshotTexts(part))
  \/ lang \in DOMAIN store /\ store[lang] # SnapshotTexts(part)[lang]
AliasDiffers(lang, alias) ==
  (alias \in AliasesOf(aliases, lang)) # (alias \in SnapshotAliases(lang))

(* C31: in every reachable state each language whose label or description  *)
(* differs from the last server snapshot, and each (language, alias) pair  *)
(* whose membership differs from it, has a dirty marker in the change      *)
(* tree, and the patch of the next save applied to the snapshot yields the *)
(* local labels, descriptions and aliases.                                 *)
C31_TextTrackingComplete ==
  /\ \A lang \in Langs :
       /\ TextDiffers(labels, "labels", lang) => TextDirty("labels", lang)
       /\ TextDiffers(descriptions, "descriptions", lang) => TextDirty("descriptions", lang)
       /\ \A alias \in AliasTexts : AliasDiffers(lang, alias) => AliasDirty(lang, alias)
  /\ TextsApplied(Fragment("labels"), "labels") = labels
  /\ TextsApplied(Fragment("descriptions"), "descriptions") = descriptions
  /\ \A lang \in Langs : AliasesApplied(Fragment("aliases"), lang) = AliasesOf(aliases, lang)

(* on an entity with a snapshot, a label of the snapshot holds another     *)
(* text and a second label of the snapshot was just deleted                *)
C31_Witness ==
  /\ data # NoData
  /\ \E lang \in Langs :
       /\ lang \in DOMAIN labels /\ lang \in DOMAIN SnapshotTexts("labels")
       /\ labels[lang] # SnapshotTexts("labels")[lang]
  /\ \E lang \in Langs : lang \notin DOMAIN labels /\ lang \in DOMAIN SnapshotTexts("labels")
  /\ last.op = "labels.del" /\ last.status = "ok"

(* the elements of the claims part in iteration order, each statement with *)
(* the snaks of its qualifiers in iteration order                          *)
Contents == [i \in 1..Len(LiveSeq) |-> [LiveSeq[i] EXCEPT !.qualifiers = SnakSet_iter(@)]]
AllQualifiers == UNION {{Contents[i].qualifiers[k] : k \in 1..Len(Contents[i].qualifiers)} :
                          i \in 1..Len(Contents)}
NothingChanged ==
  /\ unsaved' = unsaved
  /\ labels' = labels /\ descriptions' = descriptions /\ aliases' = aliases
  /\ Contents' = Contents

(* C32: a mutation that fails changes nothing.  Deleting a label or a      *)
(* description that is absent raises KeyError and records no dirty marker; *)
(* a remove on the claims or on the qualifiers of a statement that takes   *)
(* no element out raises ValueError and notifies nobody; a discard of an   *)
(* element that is not stored returns and notifies nobody; in each case    *)
(* the contents of every container are as before.                          *)
C32_FailedMutationChangesNothing ==
  [][/\ (last'.op = "labels.del" /\ last'.arg \notin DOMAIN labels)
          => (last'.status = "KeyError" /\ NothingChanged)
     /\ (last'.op = "descriptions.del" /\ last'.arg \notin DOMAIN descriptions)
          => (last'.status = "KeyError" /\ NothingChanged)
     /\ (last'.op \in {"claims.remove", "qualifiers.remove"} /\ Contents' = Contents)
          => (last'.status = "ValueError" /\ NothingChanged)
     /\ (last'.op \in {"claims.remove", "qualifiers.remove"} /\ last'.status # "ok")
          => (last'.status = "ValueError" /\ NothingChanged)
     /\ (last'.op = "claims.discard" /\ ~InSeq(LiveSeq, last'.arg))
          => (last'.status = "ok" /\ NothingChanged)
     /\ (last'.op = "qualifiers.discard" /\ last'.arg \notin AllQualifiers)
          => (last'.status = "ok" /\ NothingChanged)]_vars

(* a discard of a snak that no statement holds returned, on an entity that *)
(* has a statement and dirty markers                                       *)
C32_Witness ==
  /\ last.op = "qualifiers.discard" /\ last.status = "ok"
  /\ last.arg \notin AllQualifiers
  /\ LiveSeq # <<>>
  /\ unsaved # EmptyDict

(* the paths of the dirty markers: a part, a key below it, a key below that *)
MarkerPaths ==
  {<<part>> : part \in DOMAIN unsaved}
  \cup UNION {{<<part, unsaved[part][i].key>> : i \in 1..Len(unsaved[part])} :
                part \in DOMAIN unsaved}
  \cup UNION {UNION {{<<part, unsaved[part][i].key, unsaved[part][i].sub[j].key>> :
                        j \in 1..Len(unsaved[part][i].sub)} :
                       i \in 1..Len(unsaved[part])} :
                part \in DOMAIN unsaved}
Marked == MarkerPaths' \ MarkerPaths
Upto(path) == {SubSeq(path, 1, n) : n \in 1..Len(path)}
LiveIds == {LiveSeq[i].id : i \in 1..Len(LiveSeq)}
ReadOnly == {"aliases.get", "qualifiers.contains", "qualifiers.len", "qualifiers.p.len",
             "claims.p.len", "claims.p.iter", "claims.p.contains", "claims.get"}

(* C33: each mutation records a dirty marker only on its own path, and a   *)
(* read-only operation records none.  A label change marks only            *)
(* labels/<language>, a description change only descriptions/<language>,   *)
(* an alias change only aliases/<language>/<alias>, a change of the        *)
(* statements only claims or claims/<id> of one stored statement; a        *)
(* lookup, a membership test, a length, an iteration, aliases[<language>]  *)
(* and a byProperty view leave the markers and the patch of the next save  *)
(* as they were.                                                           *)
C33_MarkersOnOwnPath ==
  [][/\ last'.op \in {"labels.set", "labels.del"}
          => Marked \subseteq Upto(<<"labels", last'.arg>>)
     /\ last'.op \in {"descriptions.set", "descriptions.del"}
          => Marked \subseteq Upto(<<"descriptions", last'.arg>>)
     /\ last'.op \in {"aliases.add", "aliases.discard"}
          => Marked \subseteq Upto(<<"aliases", last'.arg[1], last'.arg[2]>>)
     /\ last'.op = "aliases.clear"
          => Marked \subseteq UNION {Upto(<<"aliases", last'.arg, alias>>) :
                                       alias \in AliasesOf(aliases, last'.arg)}
     /\ last'.op = "claims.add" => Marked \subseteq {<<"claims">>}
     /\ last'.op = "rank.set" => Marked \subseteq Upto(<<"claims", last'.arg>>)
     /\ last'.op \in {"claims.remove", "qualifiers.add", "qualifiers.remove"}
          => \/ Marked = {}
             \/ \E i \in LiveIds \ {NoId} : Marked \subseteq Upto(<<"claims", i>>)
     /\ last'.op \in ReadOnly => (unsaved' = unsaved /\ Changes' = Changes)]_vars

(* a statement the server sent was removed after an alias had been looked  *)
(* up in a language the entity has none in: the only marker is claims/<id> *)
C33_Witness ==
  /\ last.op = "claims.remove" /\ last.status = "ok"
  /\ MarkerPaths = {<<"claims">>, <<"claims", 1>>}
  /\ \E key \in DOMAIN aliases : aliases[key] = {}

(* the entries of a fragment of the patch the next save would send         *)
Entries(part) ==
  IF part \in DOMAIN Changes THEN {Changes[part][i] : i \in 1..Len(Changes[part])} ELSE {}
(* what the patch says of an alias, given the entity's own alias set       *)
AliasEntry(lang, alias) ==
  IF alias \in AliasesOf(aliases, lang)
  THEN [language |-> lang, value |-> alias]
  ELSE [language |-> lang, value |-> alias, remove |-> ""]
(* what the patch says of a statement id, given the entity's statements    *)
StatementEntry(statement_id) ==
  IF statement_id \in LiveIds
  THEN Statement_to_json(CHOOSE claim \in Live : claim.id = statement_id)
  ELSE [id |-> statement_id, remove |-> ""]
(* the call in `last` was given an alias, or made on a statement id: its   *)
(* marker is recorded and the patch says of it what the entity holds       *)
AliasSent ==
  /\ <<"aliases", last.arg[1], last.arg[2]>> \in MarkerPaths
  /\ AliasEntry(last.arg[1], last.arg[2]) \in Entries("aliases")
StatementSent ==
  /\ <<"claims", last.arg>> \in MarkerPaths
  /\ StatementEntry(last.arg) \in Entries("claims")
Parted == held.kind \in {"aliasset", "statement"} /\ ~held.live
EntityUnchanged ==
  /\ labels' = labels /\ descriptions' = descriptions
  /\ aliases' = aliases /\ claims' = claims /\ data' = data

(* C34: a fetch or a save that succeeds replaces the statements and the    *)
(* alias sets of the entity by new objects, and keeps the part containers: *)
(* afterwards a statement or an alias set taken before is not in the       *)
(* entity, a part container taken before still is.  A change made through  *)
(* an object that is not in the entity leaves the contents of the entity   *)
(* as they are, and still records the marker of its alias or statement     *)
(* id, for which the next save sends what the entity itself holds.  A      *)
(* change made through the labels container changes the entity.            *)
C34_ReplacedObjectsAreDetached ==
  [][/\ (last'.op \in {"fetch", "save"} /\ last'.status = "ok")
          => /\ held'.kind \in {"aliasset", "statement"} => ~held'.live
             /\ held'.kind = "labels" => held'.live
     /\ (last'.op \in {"aliasset.add", "aliasset.discard"} /\ Parted)
          => /\ EntityUnchanged
             /\ AliasSent'
     /\ (last'.op = "statement.rank.set" /\ Parted)
          => /\ EntityUnchanged
             /\ StatementSent'
     /\ (last'.op = "statement.qualifiers.add" /\ Parted)
          => /\ EntityUnchanged
             /\ held'.own.qualifiers # held.own.qualifiers
                  => StatementSent'
     /\ (last'.op = "labels.set" /\ held.kind = "labels")
          => (held'.live /\ last'.arg \in DOMAIN labels')]_vars

(* the rank of a statement taken before a fetch was set: the statement the *)
(* entity holds under the same id has another rank, and the id is marked   *)
C34_Witness ==
  /\ last.op = "statement.rank.set"
  /\ held.kind = "statement" /\ ~held.live
  /\ \E claim \in Live : claim.id = held.own.id /\ claim.rank # held.own.rank
  /\ <<"claims", held.own.id>> \in MarkerPaths
  /\ data # NoData

============================================================================
